---- MODULE Spec2Model ----
(***************************************************************************)
(* EDNA backup orchestration: BackupScheduler.run_backup with its worker   *)
(* pool and per-device pipeline (core/scheduler.py, core/engine.py), the   *)
(* type-keyed instance caches of PluginManager (core/plugin_manager.py)    *)
(* and the Filesystem sink with rotation (modules/output/filesystem.py).   *)
(***************************************************************************)
EXTENDS Naturals, Integers, Sequences, FiniteSets, TLC

\* ------------------------------------------------------------------ bounds
MaxSources == 2      \* longest config.input explored
MaxSinks == 2        \* longest config.output explored
MaxWorkers == 2      \* largest scheduler.max_workers explored
MaxSaves == 3        \* save_backup calls on the Filesystem sink
MaxTime == 3         \* last second of the clock
MaxRetention == 2    \* largest Filesystem.retention explored
DayLen == 2          \* seconds in one day of the clock
MaxConcSaves == 2    \* save_backup calls made by the concurrent threads
MaxUpserts == 2      \* upsert_devices calls on the device table explored
MaxListLen == 2      \* longest device list handed to upsert_devices
MaxResolves == 3     \* resolutions entered on the registries of the process
MaxRuns == 2         \* run_backup invocations of the scheduler job explored

\* ------------------------------------------------------- configuration data
\* Configuration blocks: a type name and the parameters ("cfg") of the block.
InputBlocks ==
    { [type |-> "netbox", cfg |-> "in1"],
      [type |-> "netbox", cfg |-> "in2"],
      [type |-> "cmdb",   cfg |-> "in3"] }

OutputBlocks ==
    { [type |-> "filesystem", cfg |-> "out1"],
      [type |-> "filesystem", cfg |-> "out2"],
      [type |-> "archive",    cfg |-> "out3"] }

InputTypes  == { b.type : b \in InputBlocks }
OutputTypes == { b.type : b \in OutputBlocks }

\* The device list the inventory behind one parameter block holds.
DevicesOf(cfg) ==
    CASE cfg = "in1" -> << "r1" >>
      [] cfg = "in2" -> << >>
      [] cfg = "in3" -> << "r2", "r3" >>

\* device.device_type of the devices of the inventories.
DeviceTypeOf(name) ==
    CASE name = "r1" -> "cisco_ios"
      [] name = "r2" -> "custom_os"
      [] name = "r3" -> "junos"

\* Device types for which modules/models holds a module file of that name.
\* "custom_os" is a DeviceModel dropped into modules/models besides the
\* shipped ones, with a process_config of its own.
KnownModels ==
    { "cisco_ios", "cisco_nxos", "cisco_s300", "fortios", "routeros", "custom_os" }

\* The names a module of modules/models binds to classes: the DeviceModel it
\* imports and the classes it defines.
ModuleClasses(module) ==
    CASE module = "cisco_ios"  -> { "DeviceModel", "CiscoIos", "CiscoXe" }
      [] module = "cisco_nxos" -> { "DeviceModel", "CiscoNxos" }
      [] module = "cisco_s300" -> { "DeviceModel", "CiscoS300" }
      [] module = "fortios"    -> { "DeviceModel", "Fortios", "Fortigate", "Fortinet" }
      [] module = "routeros"   -> { "DeviceModel", "Routeros", "Mikrotik",
                                    "MikrotikRouteros" }
      [] module = "custom_os"  -> { "DeviceModel", "CustomOs" }

\* "class X(Base)": the base of each class of modules/models.
BaseOf(class) ==
    CASE class \in { "CiscoXe" }                      -> "CiscoIos"
      [] class \in { "Fortigate", "Fortinet" }        -> "Fortios"
      [] class \in { "Mikrotik", "MikrotikRouteros" } -> "Routeros"
      [] OTHER                                        -> "DeviceModel"

\* The classes that define get_commands themselves, and what it returns.
OwnCommands ==
    [ CiscoIos  |-> << "show version", "show running-config" >>,
      CiscoNxos |-> << "show version", "show inventory", "show running-config" >>,
      CiscoS300 |-> << "show running-config" >>,
      Fortios   |-> << "get system status", "show | grep ." >>,
      Routeros  |-> << "/system resource print", "/system package update print",
                       "/system routerboard print", "/export" >>,
      CustomOs  |-> << "show config" >> ]

\* A base class that can be instantiated like any other.
InstantiableAll(class) == TRUE

\* DeviceModel is abstract (get_commands, process_config): calling it raises
\* TypeError. A class is concrete once get_commands is defined on its way up.
RECURSIVE Instantiable(_)
Instantiable(class) ==
    \/ class \in DOMAIN OwnCommands
    \/ class # "DeviceModel" /\ Instantiable(BaseOf(class))

\* get_commands() of an instance of a concrete class: its own or inherited.
RECURSIVE ClassCommands(_)
ClassCommands(class) ==
    IF class \in DOMAIN OwnCommands THEN OwnCommands[class]
    ELSE ClassCommands(BaseOf(class))

\* device_type.split('_')
SplitWords(device_type) ==
    CASE device_type = "cisco_ios"         -> << "cisco", "ios" >>
      [] device_type = "cisco_xe"          -> << "cisco", "xe" >>
      [] device_type = "cisco_nxos"        -> << "cisco", "nxos" >>
      [] device_type = "cisco_s300"        -> << "cisco", "s300" >>
      [] device_type = "custom_os"         -> << "custom", "os" >>
      [] device_type = "mikrotik_routeros" -> << "mikrotik", "routeros" >>
      [] device_type = "device_model"      -> << "device", "model" >>
      [] device_type = "Cisco_IOS"         -> << "Cisco", "IOS" >>
      [] OTHER                             -> << device_type >>

\* word.capitalize(): first character upper case, the rest lower case.
capitalize(word) ==
    CASE word \in { "cisco", "Cisco" } -> "Cisco"
      [] word \in { "ios", "IOS" }     -> "Ios"
      [] word = "xe"        -> "Xe"
      [] word = "nxos"      -> "Nxos"
      [] word = "s300"      -> "S300"
      [] word = "custom"    -> "Custom"
      [] word = "os"        -> "Os"
      [] word = "fortios"   -> "Fortios"
      [] word = "fortigate" -> "Fortigate"
      [] word = "fortinet"  -> "Fortinet"
      [] word = "routeros"  -> "Routeros"
      [] word = "mikrotik"  -> "Mikrotik"
      [] word = "junos"     -> "Junos"
      [] word = "device"    -> "Device"
      [] word = "model"     -> "Model"
      [] word = "netbox"     -> "Netbox"
      [] word = "cmdb"       -> "Cmdb"
      [] word = "filesystem" -> "Filesystem"
      [] word = "archive"    -> "Archive"

\* ''.join(word.capitalize() for word in device_type.split('_'))
RECURSIVE JoinCapitalized(_)
JoinCapitalized(words) ==
    IF words = << >> THEN ""
    ELSE capitalize(Head(words)) \o JoinCapitalized(Tail(words))

class_name(device_type) == JoinCapitalized(SplitWords(device_type))

NoModel == "Exception"

\* A resolution without the fallback scan.
ScanNone(device_type) == {}

\* The modules the fallback scan of get_device_model can take an instance
\* from: those binding class_name to something that can be instantiated.
ScanMatches(device_type) ==
    { m \in KnownModels : /\ class_name(device_type) \in ModuleClasses(m)
                          /\ Instantiable(class_name(device_type)) }

\* An import of the exact name that always ends in ModuleNotFoundError.
DirectNever(device_type) == FALSE

\* import_module(f'modules.models.{device_type}') finds the module.
DirectFound(device_type) == device_type \in KnownModels

\* PluginManager.get_device_model without its cache: what it can end with,
\* as the class instantiated (NoModel for "No model found"), the module the
\* class was taken from and the stage that gave it. The module of the exact
\* name is tried first; only ModuleNotFoundError leads to the scan of
\* modules/models, whose first match in directory order is taken.
LookupFor(device_type) ==
    IF DirectFound(device_type)
    THEN IF /\ class_name(device_type) \in ModuleClasses(device_type)
            /\ Instantiable(class_name(device_type))
         THEN { [class |-> class_name(device_type), module |-> device_type,
                 via |-> "direct"] }
         ELSE { [class |-> NoModel, module |-> device_type, via |-> "direct"] }
    ELSE IF ScanMatches(device_type) = {}
         THEN { [class |-> NoModel, module |-> "none", via |-> "scan"] }
         ELSE { [class |-> class_name(device_type), module |-> m, via |-> "scan"] :
                  m \in ScanMatches(device_type) }

\* The classes get_device_model can return an instance of.
ModelsFor(device_type) == { x.class : x \in LookupFor(device_type) }

\* get_commands() of the model registered for a device type.
get_commands(device_type) ==
    IF device_type \in KnownModels
    THEN ClassCommands(class_name(device_type))
    ELSE << >>

\* What process_config can do with a non-empty concatenation: the shipped
\* models return it unchanged; an overriding model may strip it or raise.
ProcessOutcomes(device_type) ==
    IF device_type = "custom_os" THEN {"text", "empty", "raise"} ELSE {"text"}

\* Exception classes seen by the handlers of the pipeline.
Exceptions ==
    { "NetMikoTimeoutException", "NetMikoAuthenticationException", "Exception" }

SeqsUpTo(S, n) == UNION { [1..k -> S] : k \in 0..n }

\* The sink configurations explored: up to renaming of types and parameters,
\* the first block of a non-empty config.output is the first filesystem block.
OutputConfigs ==
    { o \in SeqsUpTo(OutputBlocks, MaxSinks) :
        o # << >> => o[1] = [type |-> "filesystem", cfg |-> "out1"] }

NoInst == "none"

\* remove_stale_devices(hours=24): the staleness window, in hours.
StaleWindow == 24

\* The device cache with no row.
EmptyCache == [d \in {} |-> 0]

\* The device cache (data/edna.db outlives the process) when a run starts at
\* hour 0: no row, or the rows earlier runs left: r1 refreshed an hour ago
\* and r9, since removed from the inventories, refreshed before the window.
InitialCaches ==
    { EmptyCache,
      [d \in {"r1", "r9"} |-> IF d = "r1" THEN 0 - 1 ELSE 0 - (StaleWindow + 1)] }

\* database.upsert_devices(devices): every listed name gets its row, with
\* last_backup = CURRENT_TIMESTAMP, the other rows stay.
upsert_devices(db, devices, t) ==
    LET names == { devices[i] : i \in DOMAIN devices }
    IN [d \in DOMAIN db \cup names |-> IF d \in names THEN t ELSE db[d]]

\* database.remove_stale_devices(hours): rows with last_backup before the
\* window are deleted.
remove_stale_devices(db, hours, t) ==
    [d \in { x \in DOMAIN db : ~(db[x] < t - hours) } |-> db[d]]

\* ---------------------------------------------------------------- state
VARIABLES
    config,          \* Config: input, output, scheduler.max_workers,
                     \* scheduler.enabled, scheduler.cron
    runPc,           \* position of run_backup
    idx,             \* loop index of the source / sink loading loops
    all_devices,     \* run_backup's all_devices (device names)
    srcStatus,       \* per input block: "pending", "failed" or "answered"
    answers,         \* per input block: the list its get_devices returned
    input_cache,     \* PluginManager._input_cache: type -> cfg of the instance
    output_cache,    \* PluginManager._output_cache: type -> cfg of the instance
    output_modules,  \* run_backup's output_modules (instances, by type)
    outputLoads,     \* load_output_module calls of the run
    outStatus,       \* per output block: "pending", "failed" or "resolved"
    task,            \* one record per submitted future
    collected,       \* futures already taken from as_completed
    results,         \* run_backup's results dict
    returned,        \* what run_backup returned, or NoInst
    sinkStore,       \* per sink instance (type): device names stored
    database,        \* device cache: name of the row -> its last_backup
    last_run         \* BackupScheduler.last_run: << >> (None) or << time >>

runVars == << config, runPc, idx, all_devices, srcStatus, answers, input_cache,
              output_cache, output_modules, outputLoads, outStatus, task, collected,
              results, returned, sinkStore, database, last_run >>

\* The Filesystem sink (modules/output/filesystem.py) and the disk below it.
VARIABLES
    fs_conf,         \* Filesystem.retention and Filesystem.organize_by
    now,             \* the wall clock, in seconds
    files,           \* snapshot files: [day, dev, ts, content, mtime]
    links,           \* "<name>_latest.cfg" symlinks: [day, dev, target]
    calls,           \* save_backup calls so far: [dev, day, ts, content, status],
                     \* status "returned", "rotation_error" (returned, with
                     \* the rotation's exception logged) or "raised"
    removed          \* the files the most recent call's rotation deleted

fsVars == << fs_conf, now, files, links, calls, removed >>

\* Threads inside Filesystem.save_backup on the one shared sink instance.
VARIABLES
    worker           \* per thread: its position in save_backup and its locals

concVars == << worker >>

\* The scheduler job: BackupScheduler with its trigger, and the run_backup
\* invocations it and the API's manual trigger start.
VARIABLES
    sched_running,   \* self.scheduler.running
    has_job,         \* the job 'backup_devices' is in the scheduler's job store
    runs             \* one record per run_backup invocation, in start order

jobVars == << sched_running, has_job, runs >>

\* The two PluginManager instances of the process and their callers.
VARIABLES
    reg_cache,       \* per registry: the three caches, (kind, type) -> instance
    built,           \* every instance constructed so far, in order
    caller,          \* per thread: its position in a resolution and its locals
    resolved         \* the resolutions that ended, in the order they ended

regVars == << reg_cache, built, caller, resolved >>

\* The table "devices" of data/edna.db, row by row.
VARIABLES
    devices_table,   \* its rows: [name, host, device_type, last_backup, created_at]
    applied          \* the upsert_devices calls so far: [devices, rows, time]

dbVars == << devices_table, applied >>

vars == << runVars, fsVars, concVars, jobVars, regVars, dbVars >>

\* A scheduler.cron expression; NoInst stands for cron: None.
NightlyCron == "0 2 * * *"

ZeroResult == [success |-> 0, failed |-> 0, total |-> 0]

\* The return statements of run_backup: "no_devices" (after the source loop),
\* "no_outputs" (after the sink loop), "results" (the normal end) and "error"
\* (the handler of the outer try block).
ReturnPoints == { "no_devices", "no_outputs", "results", "error" }

Returned == runPc \in ReturnPoints

Tasks == DOMAIN task

Running == { t \in Tasks : task[t].pc \notin {"queued", "done"} }

\* ----------------------------------------------------------------- Init
RunInit ==
    /\ config \in { [input |-> i, output |-> o, max_workers |-> w,
                       enabled |-> TRUE, cron |-> NightlyCron] :
                      i \in SeqsUpTo(InputBlocks, MaxSources),
                      o \in OutputConfigs,
                      w \in 1..MaxWorkers }
    /\ runPc = "idle"
    /\ idx = 1
    /\ all_devices = << >>
    /\ srcStatus = [i \in DOMAIN config.input |-> "pending"]
    /\ answers = [i \in DOMAIN config.input |-> << >>]
    /\ input_cache = [t \in InputTypes |-> NoInst]
    /\ output_cache = [t \in OutputTypes |-> NoInst]
    /\ output_modules = << >>
    /\ outputLoads = 0
    /\ outStatus = [i \in DOMAIN config.output |-> "pending"]
    /\ task = << >>
    /\ collected = {}
    /\ results = ZeroResult
    /\ returned = NoInst
    /\ sinkStore = [t \in OutputTypes |-> {}]
    /\ database \in InitialCaches
    /\ last_run = << >>

\* ------------------------------------------------------ run_backup: sources
\* run_backup is entered (scheduler job or manual trigger).
StartRun ==
    /\ runPc = "idle"
    /\ runPc' = "sources"
    /\ idx' = 1
    /\ last_run' = << now >>
    /\ UNCHANGED << config, all_devices, srcStatus, answers, input_cache,
                    output_cache, output_modules, outputLoads, outStatus, task,
                    collected, results, returned, sinkStore, database >>

\* A loop that a failing source ends.
AfterSourceAbort(i, ok) == IF ok THEN i + 1 ELSE Len(config.input) + 1

\* Where "for source in self.config.input" goes on after the body for block i
\* ended normally (ok) or in its except clause.
AfterSource(i, ok) == i + 1

\* One iteration of the loop over config.input: load_input_module (cached by
\* type, else constructed) and get_devices; an exception ends the iteration.
LoadSource ==
    /\ runPc = "sources"
    /\ idx <= Len(config.input)
    /\ LET b == config.input[idx]
           hit == input_cache[b.type] # NoInst
       IN \E ctor \in {"ok", "raise"}, query \in {"ok", "raise"} :
            \* a cache hit constructs nothing
            /\ hit => ctor = "ok"
            /\ ctor = "raise" => query = "ok"
            /\ LET inst == IF hit THEN input_cache[b.type] ELSE b.cfg
               IN IF ctor = "raise"
                  THEN /\ srcStatus' = [srcStatus EXCEPT ![idx] = "failed"]
                       /\ UNCHANGED << input_cache, all_devices, answers >>
                  ELSE /\ input_cache' = [input_cache EXCEPT ![b.type] = inst]
                       /\ IF query = "raise"
                          THEN /\ srcStatus' = [srcStatus EXCEPT ![idx] = "failed"]
                               /\ UNCHANGED << all_devices, answers >>
                          ELSE /\ srcStatus' = [srcStatus EXCEPT ![idx] = "answered"]
                               /\ answers' = [answers EXCEPT ![idx] = DevicesOf(inst)]
                               /\ all_devices' = all_devices \o DevicesOf(inst)
            /\ idx' = AfterSource(idx, ctor = "ok" /\ query = "ok")
    /\ UNCHANGED << config, runPc, output_cache, output_modules, outputLoads, outStatus,
                    task, collected, results, returned, sinkStore, database, last_run >>

\* The test for an empty device list left out.
NoDevicesLoadedNever(devs) == FALSE

\* "if not all_devices"
NoDevicesLoaded(devs) == devs = << >>

\* The test after the source loop: the all-zero result, or on to the sinks.
CheckDevices ==
    /\ runPc = "sources"
    /\ idx > Len(config.input)
    /\ IF NoDevicesLoaded(all_devices)
       THEN /\ runPc' = "no_devices"
            /\ returned' = ZeroResult
       ELSE /\ runPc' = "sinks"
            /\ UNCHANGED returned
    /\ idx' = 1
    /\ UNCHANGED << config, all_devices, srcStatus, answers, input_cache,
                    output_cache, output_modules, outputLoads, outStatus, task, collected,
                    results, sinkStore, database, last_run >>

\* ------------------------------------------------------- run_backup: sinks
\* One iteration of the loop over config.output: load_output_module (cached
\* by type, else constructed); an exception excludes the block.
LoadOutput ==
    /\ runPc = "sinks"
    /\ idx <= Len(config.output)
    /\ LET b == config.output[idx]
           hit == output_cache[b.type] # NoInst
       IN \E ctor \in {"ok", "raise"} :
            /\ hit => ctor = "ok"
            /\ IF ctor = "raise"
               THEN /\ outStatus' = [outStatus EXCEPT ![idx] = "failed"]
                    /\ UNCHANGED << output_cache, output_modules >>
               ELSE /\ outStatus' = [outStatus EXCEPT ![idx] = "resolved"]
                    /\ output_cache' = [output_cache EXCEPT
                                          ![b.type] = IF hit THEN @ ELSE b.cfg]
                    /\ output_modules' = Append(output_modules, b.type)
    /\ idx' = idx + 1
    /\ outputLoads' = outputLoads + 1
    /\ UNCHANGED << config, runPc, all_devices, srcStatus, answers, input_cache,
                    task, collected, results, returned, sinkStore, database, last_run >>

NewTask(name) ==
    [ device  |-> name,       \* the Device handed to _backup_single_device
      pc      |-> "queued",
      session |-> "none",     \* "none", "open", "closed"
      sent    |-> << >>,      \* commands sent on the session, in order
      config_output |-> << >>, \* backup_device's config_output list
      config  |-> NoInst,     \* what backup_device returned, if it returned
      saves   |-> << >>,      \* per save_backup call: "ok" or "raise"
      cause   |-> "none",     \* why the pipeline failed
      outcome |-> "pending" ] \* "pending", "name", "None", "raised"

\* The test for an empty sink list left out.
NoOutputLoadedNever(mods) == FALSE

\* "if not output_modules"
NoOutputLoaded(mods) == mods = << >>

\* The test after the sink loop: the result with the device total, or the
\* executor is created and every device of all_devices is submitted.
CheckOutputs ==
    /\ runPc = "sinks"
    /\ idx > Len(config.output)
    /\ IF NoOutputLoaded(output_modules)
       THEN /\ runPc' = "no_outputs"
            /\ returned' = [success |-> 0, failed |-> 0, total |-> Len(all_devices)]
            /\ UNCHANGED << task, results >>
       ELSE /\ runPc' = "pool"
            /\ results' = [success |-> 0, failed |-> 0, total |-> Len(all_devices)]
            /\ task' = [t \in DOMAIN all_devices |-> NewTask(all_devices[t])]
            /\ UNCHANGED returned
    /\ UNCHANGED << config, idx, all_devices, srcStatus, answers, input_cache,
                    output_cache, output_modules, outputLoads, outStatus, collected,
                    sinkStore, database, last_run >>

\* ------------------------------------------------ the per-device pipeline
\* The except clauses of BackupEngine.backup_device.
EngineHandles(e) ==
    e \in { "NetMikoTimeoutException", "NetMikoAuthenticationException", "Exception" }

\* A handler for the connection failures only.
PipelineHandlesNarrow(e) ==
    e \in { "NetMikoTimeoutException", "NetMikoAuthenticationException" }

\* The "except Exception" that ends _backup_single_device.
PipelineHandles(e) == e \in Exceptions

\* A fan-out loop without a handler of its own.
SaveHandlesNothing(e) == FALSE

\* The "except Exception" around output_module.save_backup.
SaveHandles(e) == e \in Exceptions

\* What _backup_single_device hands to its future when exception e is raised
\* inside backup_device ("engine") or in the scheduler's own try block.
OutcomeOfRaise(e, where) ==
    IF where = "engine" /\ EngineHandles(e)
    THEN "None"                     \* backup_device returned None: "if config" fails
    ELSE IF PipelineHandles(e) THEN "None" ELSE "raised"

\* A with block that keeps the connection.
WithExitLeak(session) == session

\* Leaving the "with ConnectHandler(...) as conn" block, on any path.
WithExit(session) == IF session = "open" THEN "closed" ELSE session

Failed(t, why, e, where) ==
    [task EXCEPT ![t].pc = "done",
                 ![t].cause = why,
                 ![t].session = WithExit(@),
                 ![t].outcome = OutcomeOfRaise(e, where)]

PoolOpen == runPc \in {"pool", "raised"}

\* One thread per submitted future.
WorkerFreeAlways == TRUE

\* A pool none of whose threads ever takes a future.
WorkerFreeNever == FALSE

\* ThreadPoolExecutor(max_workers=max_workers): a worker thread is free.
WorkerFree == Cardinality(Running) < config.max_workers

\* A worker thread of the executor takes the oldest queued future.
StartTask(t) ==
    /\ PoolOpen
    /\ task[t].pc = "queued"
    /\ \A u \in Tasks : u < t => task[u].pc # "queued"
    /\ WorkerFree
    /\ task' = [task EXCEPT ![t].pc = "model"]
    /\ UNCHANGED << config, runPc, idx, all_devices, srcStatus, answers,
                    input_cache, output_cache, output_modules, outputLoads, outStatus,
                    collected, results, returned, sinkStore, database, last_run >>

\* A lookup that hands back no model instead of raising: backup_device is
\* entered all the same.
ModelMissingGoesOn(t) == [task EXCEPT ![t].pc = "open", ![t].cause = "model"]

\* get_device_model found no class for the device type: its "raise Exception"
\* leaves the try block of _backup_single_device before backup_device.
ModelMissing(t) == Failed(t, "model", "Exception", "scheduler")

\* plugin_manager.get_device_model(device.device_type)
GetModel(t) ==
    /\ PoolOpen
    /\ task[t].pc = "model"
    /\ task' = IF DeviceTypeOf(task[t].device) \in KnownModels
               THEN [task EXCEPT ![t].pc = "open"]
               ELSE ModelMissing(t)
    /\ UNCHANGED << config, runPc, idx, all_devices, srcStatus, answers,
                    input_cache, output_cache, output_modules, outputLoads, outStatus,
                    collected, results, returned, sinkStore, database, last_run >>

\* ConnectHandler(**connection_params): a session, or a connection failure.
OpenSession(t) ==
    /\ PoolOpen
    /\ task[t].pc = "open"
    /\ \E r \in {"ok"} \cup Exceptions :
         task' = IF r = "ok"
                 THEN [task EXCEPT ![t].pc = "cmd", ![t].session = "open"]
                 ELSE Failed(t, r, r, "engine")
    /\ UNCHANGED << config, runPc, idx, all_devices, srcStatus, answers,
                    input_cache, output_cache, output_modules, outputLoads, outStatus,
                    collected, results, returned, sinkStore, database, last_run >>

\* A command loop that logs the failed command and ends with what it has.
CommandFailedGoesOn(t) == [task EXCEPT ![t].cause = "command", ![t].pc = "process"]

\* send_command raised: nothing in the loop catches it, the with block is
\* left and backup_device's handler returns None.
CommandFailed(t) == Failed(t, "command", "Exception", "engine")

\* What the device answers to a command.
send_command(device, cmd) == "<output of '" \o cmd \o "' on " \o device \o ">"

\* A loop that sends the first command again and again.
FirstCommand(cmds, sent) == cmds[1]

\* "for cmd in commands": the command of the next iteration.
NextCommand(cmds, sent) == cmds[Len(sent) + 1]

\* f"! Command: {cmd}\n{output}\n"
CommandBlock(cmd, output) == "! Command: " \o cmd \o "\n" \o output \o "\n"

\* "\n".join(config_output)
RECURSIVE JoinLines(_)
JoinLines(parts) ==
    IF parts = << >> THEN ""
    ELSE IF Len(parts) = 1 THEN parts[1]
    ELSE parts[1] \o "\n" \o JoinLines(Tail(parts))

\* model.process_config(config) returning: the shipped models hand the text
\* back unchanged, an overriding model may hand back the empty string.
process_config(text, r) == IF r = "empty" THEN "" ELSE text

\* One iteration of "for cmd in commands": conn.send_command.
SendCommand(t) ==
    /\ PoolOpen
    /\ task[t].pc = "cmd"
    /\ LET cmds == get_commands(DeviceTypeOf(task[t].device))
           k == Len(task[t].sent) + 1
           cmd == NextCommand(cmds, task[t].sent)
       IN \E r \in {"ok", "raise"} :
            task' = IF r = "ok"
                    THEN [task EXCEPT ![t].sent = Append(@, cmd),
                                      ![t].config_output =
                                          Append(@, CommandBlock(cmd,
                                                   send_command(task[t].device, cmd))),
                                      ![t].pc = IF k = Len(cmds) THEN "process" ELSE "cmd"]
                    ELSE CommandFailed(t)
    /\ UNCHANGED << config, runPc, idx, all_devices, srcStatus, answers,
                    input_cache, output_cache, output_modules, outputLoads, outStatus,
                    collected, results, returned, sinkStore, database, last_run >>

\* The task after "if config:" found a snapshot: the loop over output_modules
\* is entered, or, with nothing to loop over, the name is returned.
ConfigObtained(t) ==
    IF output_modules = << >>
    THEN [task EXCEPT ![t].pc = "done", ![t].session = WithExit(@),
                      ![t].outcome = "name"]
    ELSE [task EXCEPT ![t].pc = "save", ![t].session = WithExit(@)]

\* A pipeline without the test of what backup_device returned.
HasConfigAlways(cfg) == TRUE

\* "if config:" of _backup_single_device: backup_device returned a string
\* that is not empty (None and "" are both false).
HasConfig(cfg) == cfg # NoInst /\ cfg # ""

\* model.process_config on the concatenation, the return out of the with
\* block and "if config:" of _backup_single_device.
ProcessConfig(t) ==
    /\ PoolOpen
    /\ task[t].pc = "process"
    /\ \E r \in ProcessOutcomes(DeviceTypeOf(task[t].device)) :
         LET cfg == process_config(JoinLines(task[t].config_output), r) IN
         task' = IF r = "raise"
                 THEN Failed(t, "process", "Exception", "engine")
                 ELSE IF HasConfig(cfg)
                 THEN [ConfigObtained(t) EXCEPT ![t].config = cfg]
                 ELSE [task EXCEPT
                         ![t].pc = "done",
                         ![t].session = WithExit(@),
                         ![t].cause = "empty",
                         ![t].config = cfg,
                         ![t].outcome = "None"]
    /\ UNCHANGED << config, runPc, idx, all_devices, srcStatus, answers,
                    input_cache, output_cache, output_modules, outputLoads, outStatus,
                    collected, results, returned, sinkStore, database, last_run >>

\* One iteration of "for output_module in output_modules": save_backup, whose
\* exception is logged; after the last one the device name is returned.
SaveBackup(t) ==
    /\ PoolOpen
    /\ task[t].pc = "save"
    /\ LET j == Len(task[t].saves) + 1
           last == j = Len(output_modules)
       IN \E r \in {"ok", "raise"} :
            /\ task' = IF r = "raise" /\ ~SaveHandles("Exception")
                       THEN [Failed(t, "save", "Exception", "scheduler")
                               EXCEPT ![t].saves = Append(@, r)]
                       ELSE [task EXCEPT ![t].saves = Append(@, r),
                                         ![t].pc = IF last THEN "done" ELSE "save",
                                         ![t].outcome = IF last THEN "name" ELSE @]
            /\ sinkStore' = IF r = "ok"
                            THEN [sinkStore EXCEPT ![output_modules[j]] =
                                                      @ \cup {task[t].device}]
                            ELSE sinkStore
    /\ UNCHANGED << config, runPc, idx, all_devices, srcStatus, answers,
                    input_cache, output_cache, output_modules, outputLoads, outStatus,
                    collected, results, returned, database, last_run >>

\* ------------------------------------------------- run_backup: aggregation
\* A loop body without its else branch.
TallySuccessOnly(res, device_name) ==
    IF device_name = "name" THEN [res EXCEPT !.success = @ + 1] ELSE res

\* "if device_name: results['success'] += 1 / else: results['failed'] += 1":
\* the pipeline returned the device's name (a non-empty string for every
\* device of the inventories) or None.
Tally(res, device_name) ==
    IF device_name = "name"
    THEN [res EXCEPT !.success = @ + 1]
    ELSE [res EXCEPT !.failed = @ + 1]

\* One iteration of "for future in as_completed(futures)": future.result()
\* returns the outcome, or raises what the pipeline raised.
Collect(t) ==
    /\ runPc = "pool"
    /\ task[t].pc = "done"
    /\ t \notin collected
    /\ collected' = collected \cup {t}
    /\ IF task[t].outcome = "raised"
       THEN /\ runPc' = "raised"
            /\ UNCHANGED results
       ELSE /\ results' = Tally(results, task[t].outcome)
            /\ UNCHANGED runPc
    /\ UNCHANGED << config, idx, all_devices, srcStatus, answers, input_cache,
                    output_cache, output_modules, outputLoads, outStatus, task, returned,
                    sinkStore, database, last_run >>

\* A handler that returns the counters as they stand.
OuterHandlerKeeps(res) == res

\* "except Exception as e: ... return {'success': 0, 'failed': 0, 'total': 0}"
\* around the whole body of run_backup: the counters so far are dropped.
OuterHandler(res) == ZeroResult

\* A run that goes on to its upsert without waiting for its pool.
PoolDrainedEarly == TRUE

\* The as_completed loop has taken every future and the executor's with
\* block (shutdown(wait=True)) has been left: every pipeline has returned.
PoolDrained == collected = Tasks /\ \A t \in Tasks : task[t].pc = "done"

\* The executor's with block is left once every future has finished; then
\* database.upsert_devices(all_devices) and "return results". An exception
\* out of the try block ends in the outer handler's all-zero result.
FinishRun ==
    /\ \/ runPc = "pool" /\ PoolDrained
       \/ runPc = "raised" /\ \A t \in Tasks : task[t].pc = "done"
    /\ IF runPc = "raised"
       THEN /\ runPc' = "error"
            /\ returned' = OuterHandler(results)
            /\ UNCHANGED database
       ELSE \E r \in {"ok", "raise"} :
              IF r = "ok"
              THEN /\ database' = upsert_devices(database, all_devices, now)
                   /\ runPc' = "results"
                   /\ returned' = results
              ELSE /\ runPc' = "error"
                   /\ returned' = OuterHandler(results)
                   /\ UNCHANGED database
    /\ UNCHANGED << config, idx, all_devices, srcStatus, answers, input_cache,
                    output_cache, output_modules, outputLoads, outStatus, task,
                    collected, results, sinkStore, last_run >>

\* ------------------------------------------------------ the Filesystem sink
FsDevices == { "r1", "r2" }

\* The day directory of a write at time t: none (0) when organize_by is
\* "device", else the date of t.
DayOf(t) == IF fs_conf.organize_by = "device" THEN 0 ELSE 1 + (t \div DayLen)

\* A glob over the directory of the day, whatever device the files are of.
BackupFilesOfDay(F, day, dev) == { f \in F : f.day = day }

\* device_dir.glob("<name>_*.cfg") without symlinks and without the alias.
BackupFilesIn(F, day, dev) == { f \in F : f.day = day /\ f.dev = dev }

\* backup_files sorted by st_mtime, newest first, then backup_files[retention:]:
\* the sets the slice can be (one set, unless two mtimes are equal).
FilesToRemove(B, retention) ==
    IF Cardinality(B) > retention
    THEN { R \in SUBSET B :
             /\ Cardinality(R) = Cardinality(B) - retention
             /\ \A r \in R, k \in B \ R : r.mtime <= k.mtime }
    ELSE { {} }

\* The files already unlinked when _rotate_backups is left through its
\* handler: none when glob or stat raised, else the files of files_to_remove
\* (newest first) that came before the one whose unlink raised.
RemovedBeforeError(R) ==
    { D \in SUBSET R :
        \/ D = {}
        \/ /\ D # R
           /\ \A d \in D, k \in R \ D : d.mtime >= k.mtime }

\* The file open(backup_file, 'w') and f.write(config) leave: one file per
\* name, so a file of the same directory and timestamp is replaced.
WriteFile(F, day, dev, ts, content, mtime) ==
    { f \in F : ~(f.day = day /\ f.dev = dev /\ f.ts = ts) }
      \cup { [day |-> day, dev |-> dev, ts |-> ts, content |-> content, mtime |-> mtime] }

\* latest_link.unlink() when it exists or is a symlink.
Unlinked(L, day, dev) == { l \in L : ~(l.day = day /\ l.dev = dev) }

\* latest_link.symlink_to(filename)
Symlinked(L, day, dev, ts) ==
    Unlinked(L, day, dev) \cup { [day |-> day, dev |-> dev, target |-> ts] }

\* The content an unfinished f.write leaves behind.
Partial(content) == 0 - content

FailurePoints == { "none", "open", "write", "symlink", "rotate" }

\* Filesystem.save_backup(device, config) as one call, _rotate_backups
\* included; fail is the place where the disk refuses, if it does.
save_backup(dev) ==
    /\ Len(calls) < MaxSaves
    /\ \E fail \in FailurePoints :
         LET day     == DayOf(now)
             ts      == now
             content == Len(calls) + 1
             call(st) == [dev |-> dev, day |-> day, ts |-> ts,
                          content |-> content, status |-> st]
             written == WriteFile(files, day, dev, ts, content, now)
         IN CASE fail = "open" ->
                   /\ calls' = Append(calls, call("raised"))
                   /\ removed' = {}
                   /\ UNCHANGED << files, links >>
              [] fail = "write" ->
                   /\ files' = WriteFile(files, day, dev, ts, Partial(content), now)
                   /\ calls' = Append(calls, call("raised"))
                   /\ removed' = {}
                   /\ UNCHANGED links
              [] fail = "symlink" ->
                   /\ files' = written
                   /\ links' = Unlinked(links, day, dev)
                   /\ calls' = Append(calls, call("raised"))
                   /\ removed' = {}
              [] fail = "rotate" ->
                   \* _rotate_backups logs its exception and returns
                   \E R \in FilesToRemove(BackupFilesIn(written, day, dev),
                                          fs_conf.retention) :
                     \E D \in RemovedBeforeError(R) :
                        /\ files' = written \ D
                        /\ links' = Symlinked(links, day, dev, ts)
                        /\ calls' = Append(calls, call("rotation_error"))
                        /\ removed' = D
              [] fail = "none" ->
                   \E R \in FilesToRemove(BackupFilesIn(written, day, dev),
                                          fs_conf.retention) :
                      /\ files' = written \ R
                      /\ links' = Symlinked(links, day, dev, ts)
                      /\ calls' = Append(calls, call("returned"))
                      /\ removed' = R
    /\ UNCHANGED << fs_conf, now >>

\* The clock moves on between two operations.
Tick ==
    /\ now < MaxTime
    /\ now' = now + 1
    /\ UNCHANGED << fs_conf, files, links, calls, removed >>

\* get_device_backups(device_name): the ids (timestamps) found, all date
\* directories searched when organize_by is "date".
get_device_backups(dev) == { f \in files : f.dev = dev }

\* get_device_last_backup_content(device_name): the contents the call can
\* return ("FileNotFoundError" when it raises). With organize_by "date" the
\* first "<name>_latest.cfg" that rglob yields is read, in directory order.
get_device_last_backup_content(dev) ==
    LET found == { l \in links : l.dev = dev }
        read(l) == LET fs == { f \in files : f.day = l.day /\ f.dev = dev /\ f.ts = l.target }
                   IN IF fs = {} THEN { "FileNotFoundError" }
                      ELSE { ToString(f.content) : f \in fs }
    IN IF found = {} THEN { "FileNotFoundError" }
       ELSE UNION { read(l) : l \in found }

\* The values of backup.id explored: the file name of a snapshot
\* ("<dev>_<ts>.cfg"), the alias ("<dev>_latest.cfg"), a name with a wildcard
\* ("<dev>_*.cfg") and a relative path ("../<dev>/<dev>_<ts>.cfg").
BackupIds ==
    { [kind |-> "file", dev |-> d, ts |-> t] : d \in FsDevices, t \in 0..MaxTime }
    \cup { [kind |-> k, dev |-> d, ts |-> 0] : k \in { "latest", "glob" }, d \in FsDevices }
    \cup { [kind |-> "path", dev |-> d, ts |-> t] : d \in FsDevices, t \in 0..MaxTime }

\* open(backup_file).read(): the file itself, or the file a link points to;
\* exists() is false for a link whose target is gone.
ReadFile(F) == IF F = {} THEN { "FileNotFoundError" } ELSE { ToString(f.content) : f \in F }

ReadLink(l) ==
    ReadFile({ f \in files : f.day = l.day /\ f.dev = l.dev /\ f.ts = l.target })

\* The directory <day>/<dev> exists: save_backup made it (mkdir) and nothing
\* removes it.
DirExists(day, dev) ==
    \/ \E f \in files : f.day = day /\ f.dev = dev
    \/ \E l \in links : l.day = day /\ l.dev = dev
    \/ \E i \in DOMAIN calls :
         calls[i].day = day /\ calls[i].dev = dev /\ calls[i].status # "raised"

\* Filesystem.get_backup_content(device_name, backup): the results the call
\* can have ("FileNotFoundError" when it raises). With organize_by "device"
\* the path device_dir / backup.id is read; with "date" the first path that
\* rglob("*/<device_name>/<backup.id>") yields, in directory order. How that
\* rglob treats a ".." component is the library's matter: both are allowed.
get_backup_content(dev, id) ==
    IF fs_conf.organize_by = "device"
    THEN CASE id.kind = "file" ->
                ReadFile({ f \in files : f.dev = dev /\ id.dev = dev /\ f.ts = id.ts })
           [] id.kind = "latest" ->
                LET found == { l \in links : l.dev = dev /\ id.dev = dev }
                IN IF found = {} THEN { "FileNotFoundError" }
                   ELSE UNION { ReadLink(l) : l \in found }
           [] id.kind = "glob" -> { "FileNotFoundError" }
           [] id.kind = "path" ->
                IF DirExists(0, dev)
                THEN ReadFile({ f \in files : f.dev = id.dev /\ f.ts = id.ts })
                ELSE { "FileNotFoundError" }
    ELSE CASE id.kind = "file" ->
                ReadFile({ f \in files : f.dev = dev /\ id.dev = dev /\ f.ts = id.ts })
           [] id.kind = "latest" ->
                LET found == { l \in links : l.dev = dev /\ id.dev = dev }
                IN IF found = {} THEN { "FileNotFoundError" }
                   ELSE UNION { ReadLink(l) : l \in found }
           [] id.kind = "glob" ->
                LET found == { l \in links : l.dev = dev /\ id.dev = dev }
                    named == { f \in files : f.dev = dev /\ id.dev = dev }
                IN IF found = {} /\ named = {} THEN { "FileNotFoundError" }
                   ELSE UNION { ReadLink(l) : l \in found }
                        \cup { ToString(f.content) : f \in named }
           [] id.kind = "path" ->
                { "FileNotFoundError" }
                \cup { ToString(f.content) : f \in
                         { g \in files : /\ g.dev = id.dev /\ g.ts = id.ts
                                         /\ DirExists(g.day, dev) } }

FsInit ==
    /\ fs_conf \in { [retention |-> n, organize_by |-> o] :
                       n \in 0..MaxRetention, o \in {"device", "date"} }
    /\ now = 0
    /\ files = {}
    /\ links = {}
    /\ calls = << >>
    /\ removed = {}

\* ------------------------------------- save_backup, statement by statement
ConcWorkers == { "w1", "w2" }

\* The device both threads are saving (the same name, submitted twice).
ConcDevice == "r1"

\* f.write(config) reaches the disk in this many write calls, in order.
ChunkPositions == 1..2

\* The whole content of the snapshot of call c.
FullContent(c) == [i \in ChunkPositions |-> c]

IdleWorker ==
    [ pc   |-> "idle",
      call |-> 0,        \* index of the call in calls
      day  |-> 0,        \* device_dir
      ts   |-> 0,        \* timestamp in filename
      off  |-> 0,        \* file position of f
      list |-> {},       \* backup_files of _rotate_backups
      todo |-> {} ]      \* files_to_remove not yet unlinked

WorkersQuiet == worker = [w \in ConcWorkers |-> IdleWorker]

FileAt(day, dev, ts) == { f \in files : f.day = day /\ f.dev = dev /\ f.ts = ts }

LinkAt(day, dev) == { l \in links : l.day = day /\ l.dev = dev }

\* A write of chunk c at position i of a file holding content.
Put(content, i, c) ==
    [k \in 1..(IF Len(content) > i THEN Len(content) ELSE i) |->
        IF k = i THEN c ELSE IF k <= Len(content) THEN content[k] ELSE 0]

\* st_mtime of a file written now: the clock of the file system is finer than
\* the second of the filename, so a later write carries a later st_mtime.
MtimeNow ==
    LET later == { f.mtime + 1 : f \in files }
    IN IF \E m \in later : m > now
       THEN CHOOSE m \in later : \A k \in later : k <= m
       ELSE now

\* The call of thread w ends: save_backup returns or raises.
EndCall(w, status) ==
    /\ calls' = [calls EXCEPT ![worker[w].call].status = status]
    /\ worker' = [worker EXCEPT ![w] = IdleWorker]

\* save_backup is entered: device_dir, mkdir, timestamp and filename.
ConcBegin(w) ==
    /\ worker[w].pc = "idle"
    /\ Len(calls) < MaxConcSaves
    /\ calls' = Append(calls, [dev |-> ConcDevice, day |-> DayOf(now), ts |-> now,
                               content |-> Len(calls) + 1, status |-> "running"])
    /\ worker' = [worker EXCEPT ![w] = [IdleWorker EXCEPT !.pc = "open",
                                                          !.call = Len(calls) + 1,
                                                          !.day = DayOf(now),
                                                          !.ts = now]]
    /\ UNCHANGED << fs_conf, now, files, links, removed >>

\* open(backup_file, 'w'): the file is created, or truncated when it exists.
ConcOpen(w) ==
    /\ worker[w].pc = "open"
    /\ files' = WriteFile(files, worker[w].day, ConcDevice, worker[w].ts, << >>, MtimeNow)
    /\ worker' = [worker EXCEPT ![w].pc = "write"]
    /\ UNCHANGED << fs_conf, now, links, calls, removed >>

\* One write call of f.write(config), at the position of this thread's file
\* object; the last one is followed by the close of the with block. A file
\* unlinked meanwhile takes the write without coming back.
ConcWrite(w) ==
    /\ worker[w].pc = "write"
    /\ LET i == worker[w].off + 1
           cur == FileAt(worker[w].day, ConcDevice, worker[w].ts)
       IN /\ files' = IF cur = {} THEN files
                      ELSE LET f == CHOOSE x \in cur : TRUE
                           IN WriteFile(files, f.day, f.dev, f.ts,
                                        Put(f.content, i, worker[w].call), MtimeNow)
          /\ worker' = [worker EXCEPT ![w].off = i,
                                      ![w].pc = IF i + 1 \in ChunkPositions
                                                THEN "write" ELSE "check"]
    /\ UNCHANGED << fs_conf, now, links, calls, removed >>

\* "if latest_link.exists() or latest_link.is_symlink()"
ConcCheck(w) ==
    /\ worker[w].pc = "check"
    /\ worker' = [worker EXCEPT ![w].pc =
                     IF LinkAt(worker[w].day, ConcDevice) # {} THEN "unlink" ELSE "symlink"]
    /\ UNCHANGED << fs_conf, now, files, links, calls, removed >>

\* latest_link.unlink(): FileNotFoundError when the link is gone.
ConcUnlink(w) ==
    /\ worker[w].pc = "unlink"
    /\ IF LinkAt(worker[w].day, ConcDevice) = {}
       THEN /\ EndCall(w, "raised")
            /\ UNCHANGED links
       ELSE /\ links' = Unlinked(links, worker[w].day, ConcDevice)
            /\ worker' = [worker EXCEPT ![w].pc = "symlink"]
            /\ UNCHANGED calls
    /\ UNCHANGED << fs_conf, now, files, removed >>

\* latest_link.symlink_to(filename): FileExistsError when a link is there.
ConcSymlink(w) ==
    /\ worker[w].pc = "symlink"
    /\ IF LinkAt(worker[w].day, ConcDevice) # {}
       THEN /\ EndCall(w, "raised")
            /\ UNCHANGED links
       ELSE /\ links' = Symlinked(links, worker[w].day, ConcDevice, worker[w].ts)
            /\ worker' = [worker EXCEPT ![w].pc = "glob"]
            /\ UNCHANGED calls
    /\ UNCHANGED << fs_conf, now, files, removed >>

\* _rotate_backups: the list comprehension over device_dir.glob.
ConcGlob(w) ==
    /\ worker[w].pc = "glob"
    /\ worker' = [worker EXCEPT
                    ![w].list = { f.ts : f \in BackupFilesIn(files, worker[w].day, ConcDevice) },
                    ![w].pc = "sort"]
    /\ UNCHANGED << fs_conf, now, files, links, calls, removed >>

\* backup_files.sort(key=st_mtime) and the slice: stat raises for a listed
\* file that is gone, and the rotation's handler logs it.
ConcSort(w) ==
    /\ worker[w].pc = "sort"
    /\ LET listed == { f \in BackupFilesIn(files, worker[w].day, ConcDevice) :
                         f.ts \in worker[w].list }
       IN IF { f.ts : f \in listed } # worker[w].list
          THEN /\ EndCall(w, "rotation_error")
          ELSE \E R \in FilesToRemove(listed, fs_conf.retention) :
                 IF R = {}
                 THEN EndCall(w, "returned")
                 ELSE /\ worker' = [worker EXCEPT
                                      ![w].todo = { [ts |-> f.ts, mtime |-> f.mtime] : f \in R },
                                      ![w].pc = "remove"]
                      /\ UNCHANGED calls
    /\ UNCHANGED << fs_conf, now, files, links, removed >>

\* old_file.unlink() for the next file of files_to_remove (newest first):
\* FileNotFoundError, logged by the rotation's handler, when it is gone.
ConcRemove(w) ==
    /\ worker[w].pc = "remove"
    /\ \E x \in worker[w].todo :
         /\ \A y \in worker[w].todo : y.mtime <= x.mtime
         /\ IF FileAt(worker[w].day, ConcDevice, x.ts) = {}
            THEN /\ EndCall(w, "rotation_error")
                 /\ UNCHANGED files
            ELSE /\ files' = files \ FileAt(worker[w].day, ConcDevice, x.ts)
                 /\ IF worker[w].todo = {x}
                    THEN EndCall(w, "returned")
                    ELSE /\ worker' = [worker EXCEPT ![w].todo = @ \ {x}]
                         /\ UNCHANGED calls
    /\ UNCHANGED << fs_conf, now, links, removed >>

\* ------------------------------------------------------ the scheduler job
\* The devices the inventories hold while the job is observed.
JobDevices == << "r1", "r2" >>

\* run_backup is entered: a record for the invocation, in flight.
NewRun(by) ==
    [ by       |-> by,          \* "cron" (the scheduler's job) or "manual"
      phase    |-> "sources",   \* "sources", "pool", "returned"
      devices  |-> << >>,       \* all_devices
      done     |-> 0,           \* futures collected
      success  |-> 0,
      stopped  |-> "no",        \* the phase it was in when stop() was called
      upserted |-> FALSE,       \* its database.upsert_devices call was made
      result   |-> << >> ]      \* << the dict returned >>

InFlight == { r \in DOMAIN runs : runs[r].phase # "returned" }

\* An entry that waits for the run in flight to end.
RunAdmittedExclusive(by) == InFlight = {}

\* What stands between a trigger and the entry into run_backup. The job added
\* in __init__ fires while the scheduler runs and holds the job, one instance
\* at a time (add_job without max_instances); trigger_backup hands
\* run_backup to a thread without any test.
RunAdmitted(by) ==
    IF by = "cron"
    THEN /\ sched_running
         /\ has_job
         /\ \A r \in InFlight : runs[r].by # "cron"
    ELSE TRUE

\* run_backup is entered by the job or by POST /api/backup/run: last_run is
\* set before the try block.
JobTrigger(by) ==
    /\ Len(runs) < MaxRuns
    /\ RunAdmitted(by)
    /\ runs' = Append(runs, NewRun(by))
    /\ last_run' = << now >>
    /\ UNCHANGED << sched_running, has_job, database, now >>

\* The source loop and the sink loop of a run: the all-zero return, the
\* return with the device total, or the pool is entered.
JobCollect(r) ==
    /\ runs[r].phase = "sources"
    /\ \E devs \in { << >>, JobDevices }, sinks \in BOOLEAN :
         runs' = [runs EXCEPT ![r] =
                    IF devs = << >>
                    THEN [@ EXCEPT !.phase = "returned", !.result = << ZeroResult >>]
                    ELSE IF ~sinks
                    THEN [@ EXCEPT !.phase = "returned", !.devices = devs,
                                   !.result = << [success |-> 0, failed |-> 0,
                                                  total |-> Len(devs)] >>]
                    ELSE [@ EXCEPT !.phase = "pool", !.devices = devs]]
    /\ UNCHANGED << sched_running, has_job, last_run, database, now >>

\* One future of the run's pool is collected: the name or None.
JobDevice(r) ==
    /\ runs[r].phase = "pool"
    /\ runs[r].done < Len(runs[r].devices)
    /\ \E ok \in BOOLEAN :
         runs' = [runs EXCEPT ![r].done = @ + 1,
                              ![r].success = IF ok THEN @ + 1 ELSE @]
    /\ UNCHANGED << sched_running, has_job, last_run, database, now >>

\* The pool has drained: upsert_devices and "return results", or the outer
\* handler's all-zero result when the upsert raises.
JobFinish(r) ==
    /\ runs[r].phase = "pool"
    /\ runs[r].done = Len(runs[r].devices)
    /\ \E ok \in BOOLEAN :
         IF ok
         THEN /\ database' = upsert_devices(database, runs[r].devices, now)
              /\ runs' = [runs EXCEPT
                            ![r].phase = "returned",
                            ![r].upserted = TRUE,
                            ![r].result = << [success |-> runs[r].success,
                                              failed |-> runs[r].done - runs[r].success,
                                              total |-> Len(runs[r].devices)] >>]
         ELSE /\ runs' = [runs EXCEPT ![r].phase = "returned",
                                      ![r].result = << ZeroResult >>]
              /\ UNCHANGED database
    /\ UNCHANGED << sched_running, has_job, last_run, now >>

\* A shutdown that takes the runs in flight with it.
StopCancels(rs) ==
    [r \in DOMAIN rs |-> IF rs[r].phase # "returned"
                         THEN [rs[r] EXCEPT !.phase = "returned", !.stopped = rs[r].phase]
                         ELSE rs[r]]

\* What scheduler.shutdown(wait=False) does to the run_backup invocations in
\* flight: nothing; the record notes that they saw it.
StopEffect(rs) ==
    [r \in DOMAIN rs |-> IF rs[r].phase # "returned"
                         THEN [rs[r] EXCEPT !.stopped = rs[r].phase]
                         ELSE rs[r]]

\* BackupScheduler.stop(). Whether the job store still holds the job after
\* the shutdown is the scheduler library's matter: both are allowed.
SchedStop ==
    /\ sched_running
    /\ sched_running' = FALSE
    /\ has_job' \in { has_job, FALSE }
    /\ runs' = StopEffect(runs)
    /\ UNCHANGED << last_run, database, now >>

\* BackupScheduler.start()
SchedStart ==
    /\ ~sched_running
    /\ sched_running' = TRUE
    /\ UNCHANGED << has_job, runs, last_run, database, now >>

\* BackupScheduler.sync_devices(): last_run, then the source loop, the upsert
\* of a non-empty list and the sweep; an exception ends it where it is.
sync_devices ==
    /\ last_run' = << now >>
    /\ \E devs \in { << >>, JobDevices },
          end \in { "done", "upsert_raises", "sweep_raises" } :
         LET upserted == IF devs # << >> THEN upsert_devices(database, devs, now)
                         ELSE database
         IN database' = CASE end = "done" -> remove_stale_devices(upserted, StaleWindow, now)
                          [] end = "sweep_raises" -> upserted
                          [] OTHER -> database
    /\ UNCHANGED << sched_running, has_job, runs, now >>

\* What the job leaves alone.
jobFrame ==
    << config, runPc, idx, all_devices, srcStatus, answers, input_cache,
       output_cache, output_modules, outputLoads, outStatus, task, collected,
       results, returned, sinkStore, fs_conf, files, links, calls, removed,
       worker, regVars, dbVars >>

\* BackupScheduler.__init__: with scheduler.enabled and a cron expression the
\* job is added and the scheduler started; else neither.
JobInit ==
    /\ LET armed == config.enabled /\ config.cron # NoInst
       IN sched_running = armed /\ has_job = armed
    /\ runs = << >>

\* BackupScheduler.get_status(): next_run is filled only while the scheduler
\* runs and its job has a next_run_time.
get_status ==
    [ is_running |-> sched_running,
      last_run   |-> last_run,
      next_run   |-> IF sched_running /\ has_job THEN << "next_run_time" >> ELSE << >>,
      cron       |-> config.cron ]

JobQuiet ==
    /\ sched_running = FALSE
    /\ has_job = FALSE
    /\ runs = << >>

\* --------------------------------------------------------- the device table
\* Device objects an inventory can return: name, host, device_type.
DbDevices ==
    { [name |-> n, host |-> h, device_type |-> dt] :
        n \in { "r1", "r2" }, h \in { "10.0.0.1", "10.0.0.2" },
        dt \in { "cisco_ios", "fortios" } }

\* An INSERT into a table without a key on name.
InsertRow(tbl, d, t) ==
    tbl \cup { [ name |-> d.name, host |-> d.host, device_type |-> d.device_type,
                 last_backup |-> t, created_at |-> t ] }

\* "INSERT INTO devices (name, host, device_type, last_backup) VALUES (?, ?, ?,
\* CURRENT_TIMESTAMP) ON CONFLICT(name) DO UPDATE SET host, device_type,
\* last_backup = CURRENT_TIMESTAMP"; created_at takes its default on insert.
UpsertRow(tbl, d, t) ==
    IF \E r \in tbl : r.name = d.name
    THEN { IF r.name = d.name
           THEN [r EXCEPT !.host = d.host, !.device_type = d.device_type,
                          !.last_backup = t]
           ELSE r : r \in tbl }
    ELSE tbl \cup { [ name |-> d.name, host |-> d.host, device_type |-> d.device_type,
                      last_backup |-> t, created_at |-> t ] }

\* "for device in devices: conn.execute(...)"
RECURSIVE UpsertRows(_, _, _)
UpsertRows(tbl, devices, t) ==
    IF devices = << >> THEN tbl
    ELSE UpsertRows(UpsertRow(tbl, Head(devices), t), Tail(devices), t)

\* DeviceDatabase.upsert_devices(devices): the statements run in one
\* transaction, committed at the end; an exception ("database is locked")
\* rolls it back and is raised to the caller.
DbUpsert ==
    /\ Len(applied) < MaxUpserts
    /\ \E devices \in SeqsUpTo(DbDevices, MaxListLen), ok \in BOOLEAN :
         IF ok
         THEN /\ devices_table' = UpsertRows(devices_table, devices, now)
              /\ applied' = Append(applied, [ devices |-> devices,
                                              rows |-> devices_table',
                                              time |-> now ])
         ELSE UNCHANGED << devices_table, applied >>

DbQuiet ==
    /\ devices_table = {}
    /\ applied = << >>

\* ---------------------------------------------------- the plugin registry
\* scheduler.py 24 and api/server.py 24 each construct a PluginManager.
Registries == { "scheduler", "api" }

\* The threads that resolve: the job's and the manual trigger's run_backup,
\* two device workers of a run's pool, and the HTTP layer's read handlers.
RegCallers == { "cron", "manual", "w1", "w2", "http" }

RegistryOf(c) == IF c = "http" THEN "api" ELSE "scheduler"

\* device_type values of the inventory's custom field.
RegDeviceTypes ==
    KnownModels \cup
    { "cisco_xe", "fortigate", "fortinet", "mikrotik", "mikrotik_routeros",
      "junos", "device_model", "Cisco_IOS" }

\* What each thread asks its registry for: run_backup loads the input and the
\* output blocks, a device worker the model of its device, a read handler
\* the output block.
RequestsOf(c) ==
    CASE c \in { "cron", "manual" } ->
           { [kind |-> "input", type |-> b.type, cfg |-> b.cfg] : b \in InputBlocks }
           \cup { [kind |-> "output", type |-> b.type, cfg |-> b.cfg] : b \in OutputBlocks }
      [] c \in { "w1", "w2" } ->
           { [kind |-> "model", type |-> dt, cfg |-> NoInst] : dt \in RegDeviceTypes }
      [] c = "http" ->
           { [kind |-> "output", type |-> b.type, cfg |-> b.cfg] : b \in OutputBlocks }

CacheKey(q) == [kind |-> q.kind, type |-> q.type]

IdleCaller == [pc |-> "idle", req |-> << >>, inst |-> 0, after |-> 0]

\* Calls entered so far.
Resolutions == Len(resolved) + Cardinality({ c \in RegCallers : caller[c].pc # "idle" })

\* The resolution returns (inst > 0) or raises (inst = 0).
EndResolution(c, q, inst, made, after) ==
    resolved' = Append(resolved,
                  [ reg |-> RegistryOf(c), kind |-> q.kind, type |-> q.type,
                    cfg |-> q.cfg, inst |-> inst, made |-> made, after |-> after ])

\* "if module_type in self._input_cache" (and its two siblings).
CacheHit(cache, key) == key \in DOMAIN cache

\* load_input_module / load_output_module / get_device_model is entered: the
\* cached instance is returned, or the thread goes on to construct one.
Resolve(c) ==
    /\ caller[c].pc = "idle"
    /\ Resolutions < MaxResolves
    /\ \E q \in RequestsOf(c) :
         LET cache == reg_cache[RegistryOf(c)] IN
         IF CacheHit(cache, CacheKey(q))
         THEN /\ EndResolution(c, q, cache[CacheKey(q)], FALSE, Len(resolved))
              /\ UNCHANGED caller
         ELSE /\ caller' = [caller EXCEPT ![c] = [pc |-> "miss", req |-> q, inst |-> 0,
                                                 after |-> Len(resolved)]]
              /\ UNCHANGED resolved
    /\ UNCHANGED << reg_cache, built >>

\* A registry that remembers the failure under the type's key.
RememberFailure(cache, key) ==
    [k \in DOMAIN cache \cup { key } |-> IF k = key THEN 0 ELSE cache[k]]

\* "except Exception as e: logger.error(...); raise" of the two loaders and
\* the final "raise Exception" of get_device_model: the assignment to the
\* cache was not reached, the cache is as it was.
AfterRaise(cache, key) == cache

\* import_module, getattr and the call of the class: an instance, or the
\* exception raised to the caller. A model class is found as LookupFor says.
Construct(c) ==
    /\ caller[c].pc = "miss"
    /\ LET q == caller[c].req IN
       \E found \in IF q.kind = "model" THEN LookupFor(q.type)
                    ELSE { [class |-> cl, module |-> q.type, via |-> "direct"] :
                             cl \in { class_name(q.type), NoModel } } :
         IF found.class = NoModel
         THEN /\ EndResolution(c, q, 0, FALSE, caller[c].after)
              /\ caller' = [caller EXCEPT ![c] = IdleCaller]
              /\ reg_cache' = [reg_cache EXCEPT ![RegistryOf(c)] =
                                                 AfterRaise(@, CacheKey(q))]
              /\ UNCHANGED built
         ELSE /\ built' = Append(built, [ reg |-> RegistryOf(c), kind |-> q.kind,
                                          type |-> q.type, cfg |-> q.cfg,
                                          class |-> found.class,
                                          module |-> found.module,
                                          via |-> found.via ])
              /\ caller' = [caller EXCEPT ![c].pc = "made", ![c].inst = Len(built) + 1]
              /\ UNCHANGED << resolved, reg_cache >>

\* "self._input_cache[module_type] = instance; return instance"
Store(c) ==
    /\ caller[c].pc = "made"
    /\ LET q == caller[c].req
           cache == reg_cache[RegistryOf(c)]
       IN /\ reg_cache' = [reg_cache EXCEPT ![RegistryOf(c)] =
                             [k \in DOMAIN cache \cup { CacheKey(q) } |->
                                IF k = CacheKey(q) THEN caller[c].inst ELSE cache[k]]]
          /\ EndResolution(c, q, caller[c].inst, TRUE, caller[c].after)
    /\ caller' = [caller EXCEPT ![c] = IdleCaller]
    /\ UNCHANGED built

\* PluginManager.__init__: three empty caches.
RegQuiet ==
    /\ reg_cache = [r \in Registries |-> [k \in {} |-> 0]]
    /\ built = << >>
    /\ caller = [c \in RegCallers |-> IdleCaller]
    /\ resolved = << >>

\* ------------------------------------------------------- specifications
\* A scheduler whose sinks are idle, and a sink that no run is using.
QuietConfig ==
    [input |-> << >>, output |-> << >>, max_workers |-> 1,
     enabled |-> TRUE, cron |-> NightlyCron]

RunRest ==
    /\ runPc = "idle"
    /\ idx = 1
    /\ all_devices = << >>
    /\ srcStatus = << >>
    /\ answers = << >>
    /\ input_cache = [t \in InputTypes |-> NoInst]
    /\ output_cache = [t \in OutputTypes |-> NoInst]
    /\ output_modules = << >>
    /\ outputLoads = 0
    /\ outStatus = << >>
    /\ task = << >>
    /\ collected = {}
    /\ results = ZeroResult
    /\ returned = NoInst
    /\ sinkStore = [t \in OutputTypes |-> {}]
    /\ last_run = << >>

RunIdle == config = QuietConfig /\ RunRest

RunQuiet == RunIdle /\ database = EmptyCache

FsQuiet ==
    /\ fs_conf = [retention |-> 1, organize_by |-> "device"]
    /\ now = 0
    /\ files = {}
    /\ links = {}
    /\ calls = << >>
    /\ removed = {}

\* One run of the scheduler.
Init == RunInit /\ FsQuiet /\ WorkersQuiet /\ JobQuiet /\ RegQuiet /\ DbQuiet

Next ==
    \/ StartRun /\ UNCHANGED << fsVars, concVars, jobVars, regVars, dbVars >>
    \/ LoadSource /\ UNCHANGED << fsVars, concVars, jobVars, regVars, dbVars >>
    \/ CheckDevices /\ UNCHANGED << fsVars, concVars, jobVars, regVars, dbVars >>
    \/ LoadOutput /\ UNCHANGED << fsVars, concVars, jobVars, regVars, dbVars >>
    \/ CheckOutputs /\ UNCHANGED << fsVars, concVars, jobVars, regVars, dbVars >>
    \/ \E t \in Tasks : StartTask(t) /\ UNCHANGED << fsVars, concVars, jobVars, regVars, dbVars >>
    \/ \E t \in Tasks : GetModel(t) /\ UNCHANGED << fsVars, concVars, jobVars, regVars, dbVars >>
    \/ \E t \in Tasks : OpenSession(t) /\ UNCHANGED << fsVars, concVars, jobVars, regVars, dbVars >>
    \/ \E t \in Tasks : SendCommand(t) /\ UNCHANGED << fsVars, concVars, jobVars, regVars, dbVars >>
    \/ \E t \in Tasks : ProcessConfig(t) /\ UNCHANGED << fsVars, concVars, jobVars, regVars, dbVars >>
    \/ \E t \in Tasks : SaveBackup(t) /\ UNCHANGED << fsVars, concVars, jobVars, regVars, dbVars >>
    \/ \E t \in Tasks : Collect(t) /\ UNCHANGED << fsVars, concVars, jobVars, regVars, dbVars >>
    \/ FinishRun /\ UNCHANGED << fsVars, concVars, jobVars, regVars, dbVars >>

Spec == Init /\ [][Next]_vars

\* Successive save_backup calls on one Filesystem sink.
InitFs == RunQuiet /\ FsInit /\ WorkersQuiet /\ JobQuiet /\ RegQuiet /\ DbQuiet

NextFs ==
    \/ \E dev \in FsDevices : save_backup(dev) /\ UNCHANGED << runVars, concVars, jobVars, regVars, dbVars >>
    \/ Tick /\ UNCHANGED << runVars, concVars, jobVars, regVars, dbVars >>

SpecFs == InitFs /\ [][NextFs]_vars

\* Two threads in save_backup for the same device name on one sink.
InitConc == RunQuiet /\ FsInit /\ WorkersQuiet /\ JobQuiet /\ RegQuiet /\ DbQuiet

NextConc ==
    \/ \E w \in ConcWorkers : ConcBegin(w) /\ UNCHANGED << runVars, jobVars, regVars, dbVars >>
    \/ \E w \in ConcWorkers : ConcOpen(w) /\ UNCHANGED << runVars, jobVars, regVars, dbVars >>
    \/ \E w \in ConcWorkers : ConcWrite(w) /\ UNCHANGED << runVars, jobVars, regVars, dbVars >>
    \/ \E w \in ConcWorkers : ConcCheck(w) /\ UNCHANGED << runVars, jobVars, regVars, dbVars >>
    \/ \E w \in ConcWorkers : ConcUnlink(w) /\ UNCHANGED << runVars, jobVars, regVars, dbVars >>
    \/ \E w \in ConcWorkers : ConcSymlink(w) /\ UNCHANGED << runVars, jobVars, regVars, dbVars >>
    \/ \E w \in ConcWorkers : ConcGlob(w) /\ UNCHANGED << runVars, jobVars, regVars, dbVars >>
    \/ \E w \in ConcWorkers : ConcSort(w) /\ UNCHANGED << runVars, jobVars, regVars, dbVars >>
    \/ \E w \in ConcWorkers : ConcRemove(w) /\ UNCHANGED << runVars, jobVars, regVars, dbVars >>
    \/ Tick /\ UNCHANGED << runVars, concVars, jobVars, regVars, dbVars >>

SpecConc == InitConc /\ [][NextConc]_vars

\* The scheduler job with its triggers and the runs they start.
InitJob ==
    /\ config \in { [QuietConfig EXCEPT !.enabled = e, !.cron = c] :
                      e \in BOOLEAN, c \in { NoInst, NightlyCron } }
    /\ RunRest /\ database \in InitialCaches
    /\ FsQuiet /\ WorkersQuiet /\ JobInit /\ RegQuiet /\ DbQuiet

NextJob ==
    \/ \E by \in {"cron", "manual"} : JobTrigger(by) /\ UNCHANGED jobFrame
    \/ \E r \in DOMAIN runs : JobCollect(r) /\ UNCHANGED jobFrame
    \/ \E r \in DOMAIN runs : JobDevice(r) /\ UNCHANGED jobFrame
    \/ \E r \in DOMAIN runs : JobFinish(r) /\ UNCHANGED jobFrame
    \/ SchedStop /\ UNCHANGED jobFrame
    \/ SchedStart /\ UNCHANGED jobFrame
    \/ sync_devices /\ UNCHANGED jobFrame
    \/ Tick /\ UNCHANGED << runVars, concVars, jobVars, regVars, dbVars >>

SpecJob == InitJob /\ [][NextJob]_vars

\* The registries of one process and the threads resolving on them.
InitReg == RunQuiet /\ FsQuiet /\ WorkersQuiet /\ JobQuiet /\ RegQuiet /\ DbQuiet

NextReg ==
    \/ \E c \in RegCallers : Resolve(c) /\ UNCHANGED << runVars, fsVars, concVars, jobVars, dbVars >>
    \/ \E c \in RegCallers : Construct(c) /\ UNCHANGED << runVars, fsVars, concVars, jobVars, dbVars >>
    \/ \E c \in RegCallers : Store(c) /\ UNCHANGED << runVars, fsVars, concVars, jobVars, dbVars >>

SpecReg == InitReg /\ [][NextReg]_vars

\* upsert_devices calls on one device table.
InitDb == RunQuiet /\ FsQuiet /\ WorkersQuiet /\ JobQuiet /\ RegQuiet /\ DbQuiet

NextDb ==
    \/ DbUpsert /\ UNCHANGED << runVars, fsVars, concVars, jobVars, regVars >>
    \/ Tick /\ UNCHANGED << runVars, concVars, jobVars, regVars, dbVars >>

SpecDb == InitDb /\ [][NextDb]_vars

\* ----------------------------------------------------------------- claims
RECURSIVE Flatten(_)
Flatten(ss) == IF ss = << >> THEN << >> ELSE Head(ss) \o Flatten(Tail(ss))

FailureCauses == { "model", "command", "process" } \cup Exceptions

\* The session of task t could not be opened.
SessionFailed(t) == task[t].cause \in Exceptions

\* C1: no exception escapes _backup_single_device: a pipeline that fails in
\* model resolution, session opening (timeout, authentication, other), command
\* execution or post-processing ends with the failure marker None, and the run
\* still collects an outcome for every device.
C1_NoExceptionEscapes ==
    /\ runPc # "raised"
    /\ \A t \in Tasks :
         /\ task[t].outcome # "raised"
         /\ task[t].cause \in FailureCauses =>
               task[t].pc = "done" /\ task[t].outcome = "None"
    /\ Returned =>
         \A t \in Tasks : task[t].outcome \in {"name", "None"} /\ t \in collected

\* A returned run in which one pipeline failed in post-processing, one in model
\* resolution, and a third device was backed up.
C1_Witness ==
    /\ Returned
    /\ \E t, u, v \in Tasks :
         /\ task[t].cause = "process"
         /\ task[u].cause = "model"
         /\ task[v].outcome = "name"

\* C2 (as claimed, for the runs that end in "return results"): with a resolved
\* sink, when the session of device X failed and the pipeline of another device
\* Y succeeded, the returned result has failed >= 1 and success >= 1 and Y's
\* snapshot is stored at some sink of the run.
C2_Isolation ==
    runPc = "results" /\ output_modules # << >> =>
      \A x, y \in Tasks :
        /\ SessionFailed(x)
        /\ task[y].outcome = "name"
        /\ task[x].device # task[y].device
        => /\ returned.failed >= 1
           /\ returned.success >= 1
           /\ \E j \in DOMAIN output_modules :
                 task[y].device \in sinkStore[output_modules[j]]

\* C6: never more than scheduler.max_workers pipelines run at once, every
\* device of all_devices has exactly one pipeline (the future of its position),
\* and run_backup returns from the pool only when every pipeline has ended.
C6_BoundedPool ==
    /\ Cardinality(Running) <= config.max_workers
    /\ Tasks # {} =>
         /\ DOMAIN task = DOMAIN all_devices
         /\ \A t \in Tasks : task[t].device = all_devices[t]
    /\ runPc \in {"results", "error"} =>
         /\ DOMAIN task = DOMAIN all_devices
         /\ \A t \in Tasks : task[t].pc = "done" /\ task[t].outcome # "pending"

\* Every worker is busy and a device is still waiting for one.
C6_Witness ==
    /\ Cardinality(Running) = config.max_workers
    /\ \E t \in Tasks : task[t].pc = "queued"
    /\ \E t \in Tasks : task[t].pc = "done"

\* C7: when the sources yield no device, run_backup returns the all-zero
\* result and has loaded no sink, started no pipeline and written nothing.
C7_NoDevices ==
    runPc \notin {"idle", "sources"} /\ all_devices = << >> =>
      /\ runPc = "no_devices"
      /\ returned = ZeroResult
      /\ outputLoads = 0
      /\ output_modules = << >>
      /\ Tasks = {}
      /\ \A s \in OutputTypes : sinkStore[s] = {}

\* The run returned with no device: one source failed, another answered with
\* an empty list, and sinks are configured.
C7_Witness ==
    /\ runPc = "no_devices"
    /\ config.output # << >>
    /\ \E i, j \in DOMAIN config.input :
         srcStatus[i] = "failed" /\ srcStatus[j] = "answered"

\* C8: with devices collected and no sink resolved, run_backup returns
\* {success 0, failed 0, total N} and no pipeline exists: no command-model is
\* resolved and no session opened.
C8_NoOutputs ==
    runPc \notin {"idle", "sources", "sinks"} /\ all_devices # << >>
                                             /\ output_modules = << >> =>
      /\ runPc = "no_outputs"
      /\ returned = [success |-> 0, failed |-> 0, total |-> Len(all_devices)]
      /\ Tasks = {}

\* Three devices were collected and both configured sinks failed to load.
C8_Witness ==
    /\ runPc = "no_outputs"
    /\ Len(all_devices) = 3
    /\ outputLoads = 2

\* C9: after the source loop every block has either failed or answered, the
\* device list is the concatenation of the answers (a failed block adds
\* nothing), every listed device gets a pipeline, and total is its length.
C9_SourceIsolation ==
    runPc \notin {"idle", "sources"} =>
      /\ \A i \in DOMAIN config.input : srcStatus[i] \in {"failed", "answered"}
      /\ \A i \in DOMAIN config.input : srcStatus[i] = "failed" => answers[i] = << >>
      /\ all_devices = Flatten(answers)
      /\ runPc \in {"pool", "results"} =>
            /\ results.total = Len(all_devices)
            /\ DOMAIN task = DOMAIN all_devices
      /\ runPc \in {"no_outputs", "results"} => returned.total = Len(all_devices)

\* The first source failed, the second answered, and its devices were backed up.
C9_Witness ==
    /\ runPc = "results"
    /\ Len(config.input) = 2
    /\ srcStatus[1] = "failed"
    /\ srcStatus[2] = "answered"
    /\ returned.total = 2
    /\ returned.success >= 1

\* C10: a pipeline in which a save_backup raised has still called save_backup
\* on every sink of output_modules and returned the device name, and every
\* collected pipeline that returned its name is counted in success.
C10_SinkFailureTolerated ==
    /\ \A t \in Tasks :
         task[t].pc = "done" /\ (\E j \in DOMAIN task[t].saves : task[t].saves[j] = "raise") =>
           /\ Len(task[t].saves) = Len(output_modules)
           /\ task[t].outcome = "name"
    /\ results.success = Cardinality({ t \in collected : task[t].outcome = "name" })
    /\ results.failed = Cardinality({ t \in collected : task[t].outcome = "None" })

\* Every sink write of a device failed, on two sinks, and the returned result
\* counts the device as a success.
C10_Witness ==
    /\ runPc = "results"
    /\ \E t \in Tasks : task[t].saves = << "raise", "raise" >>
    /\ returned.success = Len(all_devices)

\* The most recent save_backup call, and the file a call writes.
LastCall == calls[Len(calls)]

SameFile(f, c) == f.day = c.day /\ f.dev = c.dev /\ f.ts = c.ts

\* C3 (as claimed): whatever the retention and the history, the rotation of a
\* save_backup call never deletes the file that call has written.
C3_RotationKeepsNew ==
    calls # << >> => \A f \in removed : ~SameFile(f, LastCall)

\* The save_backup calls for one device, oldest first.
CallsOf(d) == SelectSeq(calls, LAMBDA c : c.dev = d)

\* Every call for d returned without any error, each in a second of its own.
CleanHistory(d) ==
    LET cs == CallsOf(d)
    IN \A i \in DOMAIN cs :
         /\ cs[i].status = "returned"
         /\ \A j \in DOMAIN cs : j # i => cs[j].ts # cs[i].ts

\* C4 (as claimed, for retention N >= 1 and K > N calls that all returned
\* without error in distinct seconds): in both organize_by modes the history
\* get_device_backups lists holds exactly the N most recent snapshots and
\* get_device_last_backup_content returns the content of the most recent write.
C4_RotationKeepsNewestN ==
    \A d \in FsDevices :
      LET cs == CallsOf(d)
          K  == Len(cs)
          N  == fs_conf.retention
      IN N >= 1 /\ K > N /\ CleanHistory(d) =>
           /\ { f.content : f \in get_device_backups(d) }
                 = { cs[i].content : i \in (K - N + 1)..K }
           /\ get_device_last_backup_content(d) = { ToString(cs[K].content) }

\* Every thread is outside save_backup.
AtRest == \A w \in ConcWorkers : worker[w].pc = "idle"

\* Directories of the device in which some save_backup call has run.
DirsUsed == { calls[i].day : i \in DOMAIN calls }

\* C5: two threads saving the same device name on the shared sink never
\* interleave: no save_backup raises (the only source of an exception here is
\* the other writer), and once both calls have returned every snapshot file
\* holds the whole content of one call and the latest link of each directory
\* used exists and names an existing file. Stated for retention >= 1.
C5_WritesNotInterleaved ==
    fs_conf.retention >= 1 =>
      /\ \A i \in DOMAIN calls : calls[i].status # "raised"
      /\ AtRest =>
           /\ \A f \in files : \E c \in DOMAIN calls : f.content = FullContent(c)
           /\ \A day \in DirsUsed :
                /\ LinkAt(day, ConcDevice) # {}
                /\ \A l \in LinkAt(day, ConcDevice) :
                     FileAt(day, ConcDevice, l.target) # {}

\* Position in output_modules of the instance appended for output block i.
SlotOf(i) == Cardinality({ j \in 1..i : outStatus[j] = "resolved" })

\* C11: a device whose snapshot was obtained has it delivered to every
\* resolved block of config.output: the save_backup call made for block i, in
\* configuration order, goes to the destination configured in block i, also
\* when two blocks have the same type name.
C11_FanOutEverySink ==
    \A t \in Tasks :
      task[t].outcome = "name" =>
        \A i \in DOMAIN config.output :
          outStatus[i] = "resolved" =>
            /\ SlotOf(i) <= Len(task[t].saves)
            /\ output_cache[output_modules[SlotOf(i)]] = config.output[i].cfg

\* The command list of the device of task t.
CommandsOf(t) == get_commands(DeviceTypeOf(task[t].device))

\* C12: when a command of a device's list fails, no later command is sent on
\* that session (the commands sent are the ones before the failed one and
\* the pipeline has ended), the pipeline's outcome is the failure marker,
\* counted as failed by the run, and no save_backup call is made for it.
C12_CommandFailureAborts ==
    /\ \A t \in Tasks :
         task[t].cause = "command" =>
           /\ task[t].pc = "done"
           /\ Len(task[t].sent) < Len(CommandsOf(t))
           /\ \A k \in DOMAIN task[t].sent : task[t].sent[k] = CommandsOf(t)[k]
           /\ task[t].outcome = "None"
           /\ task[t].saves = << >>
    /\ runPc = "results" =>
         returned.failed >= Cardinality({ t \in Tasks : task[t].cause = "command" })

\* The second command of a device failed after the first was sent, another
\* device was saved, and the run returned.
C12_Witness ==
    /\ runPc = "results"
    /\ \E t \in Tasks : task[t].cause = "command" /\ Len(task[t].sent) = 1
    /\ \E u \in Tasks : task[u].outcome = "name" /\ task[u].saves # << >>

\* C13: a session that was opened is released before backup_device returns,
\* on every exit path: no pipeline that has left backup_device (it is at the
\* sink writes or has ended) has an open session, and one that sent a
\* command has a closed one.
C13_SessionReleased ==
    \A t \in Tasks :
      /\ task[t].pc \in {"save", "done"} => task[t].session # "open"
      /\ task[t].pc \in {"save", "done"} /\ task[t].cause \in {"command", "process", "empty"}
           => task[t].session = "closed"
      /\ task[t].outcome = "name" => task[t].session = "closed"

\* A session closed after a command failure in the middle of the list and a
\* session closed after process_config raised.
C13_Witness ==
    /\ \E t \in Tasks : /\ task[t].cause = "command"
                        /\ Len(task[t].sent) = 1
                        /\ task[t].session = "closed"
    /\ \E u \in Tasks : task[u].cause = "process" /\ task[u].session = "closed"

\* C14: a device whose device_type has no command-model is reported as
\* failed and no session to it is opened: its pipeline ends with the failure
\* marker, without session, command or sink write, and is counted as failed.
C14_NoModelNoSession ==
    /\ \A t \in Tasks :
         /\ task[t].cause = "model" =>
              /\ task[t].outcome = "None"
              /\ task[t].session = "none"
              /\ task[t].sent = << >>
              /\ task[t].saves = << >>
         /\ DeviceTypeOf(task[t].device) \notin KnownModels =>
              /\ task[t].session = "none"
              /\ task[t].pc \in {"queued", "model", "done"}
              /\ task[t].pc = "done" => task[t].cause = "model"
    /\ runPc = "results" =>
         returned.failed >= Cardinality({ t \in Tasks : task[t].cause = "model" })

\* The run returned with a device of unknown type failed and another saved.
C14_Witness ==
    /\ runPc = "results"
    /\ \E t \in Tasks : task[t].cause = "model" /\ task[t].device = "r3"
    /\ \E u \in Tasks : task[u].outcome = "name"

\* The names of the collected devices.
CollectedNames == { all_devices[i] : i \in DOMAIN all_devices }

\* C15: a run that collected at least one device and ended through one of
\* its return statements (not through the handler of an exception) has
\* upserted every collected device into the device cache, whatever the
\* per-device outcomes, also when no sink resolved.
C15_UpsertEveryRun ==
    runPc \in {"no_outputs", "results"} =>
      \A d \in CollectedNames : d \in DOMAIN database /\ database[d] = now

\* C16: when a run has ended (here: normally, after its pool and its upsert),
\* whatever the outcomes of its devices, no row of the device cache has a
\* last refresh older than the staleness window.
C16_SweepEveryRun ==
    runPc = "results" =>
      \A d \in DOMAIN database : ~(database[d] < now - StaleWindow)

\* Devices none of whose pipelines returned the name in this run.
FailedNames ==
    { d \in CollectedNames :
        \A t \in Tasks : task[t].device = d => task[t].outcome # "name" }

\* C17: last_backup is the time of the last successful snapshot: after a run
\* in which a device's pipeline failed, the device has the last_backup it had
\* before the run, and none if it had no row.
C17_LastBackupOnlySuccess ==
    runPc = "results" =>
      \A d \in FailedNames :
        \/ d \notin DOMAIN database
        \/ \E c \in InitialCaches : d \in DOMAIN c /\ c[d] = database[d]

EndedByReturn(r) ==
    LET n == Len(r.devices)
    IN \/ n = 0 /\ r.done = 0 /\ ~r.upserted /\ r.result = << ZeroResult >>
       \/ n > 0 /\ r.done = 0 /\ ~r.upserted
                /\ r.result = << [success |-> 0, failed |-> 0, total |-> n] >>
       \/ n > 0 /\ r.done = n /\ r.upserted
                /\ r.result = << [success |-> r.success,
                                  failed |-> n - r.success, total |-> n] >>
       \/ n > 0 /\ r.done = n /\ ~r.upserted /\ r.result = << ZeroResult >>

C20_ManualTriggerNeverBlocked ==
    Len(runs) < MaxRuns =>
      /\ RunAdmitted("manual")
      /\ ENABLED JobTrigger("manual")

\* Two runs in flight, the job's and a manual one, both in their pools.
C20_Witness ==
    \E r, q \in InFlight :
      /\ runs[r].by = "cron" /\ runs[r].phase = "pool"
      /\ runs[q].by = "manual" /\ runs[q].phase = "pool"


\* C21: once a run has returned, what get_status returns carries the counts
\* (success, failed, total) that one of the returned runs ended with.
C21_StatusReflectsCounts ==
    (\E r \in DOMAIN runs : runs[r].result # << >>)
    => \E r \in DOMAIN runs :
         /\ runs[r].result # << >>
         /\ \A k \in { "success", "failed", "total" } :
              /\ k \in DOMAIN get_status
              /\ get_status[k] = runs[r].result[1][k]


\* C22: for inventory sources and storage sinks, a resolution entered after a
\* successful resolution of the same type name on the same registry has ended
\* returns the very same instance, whatever block it passes, and constructs
\* nothing.
C22_SameInstanceAfterwards ==
    \A i, j \in DOMAIN resolved :
         /\ i < j
         /\ resolved[i].kind \in { "input", "output" }
         /\ resolved[i].inst > 0
         /\ resolved[j].reg = resolved[i].reg
         /\ resolved[j].kind = resolved[i].kind
         /\ resolved[j].type = resolved[i].type
         /\ resolved[j].after >= i
         => /\ resolved[j].inst = resolved[i].inst
            /\ ~resolved[j].made

\* C23: each capability type is constructed at most once on a registry,
\* under every interleaving of the threads resolving on it.
C23_ConstructedAtMostOnce ==
    \A i, j \in DOMAIN built :
         /\ built[i].reg = built[j].reg
         /\ built[i].kind = built[j].kind
         /\ built[i].type = built[j].type
         => i = j


\* The classes the model implementations of modules/models define.
ModelClasses == UNION { ModuleClasses(m) : m \in KnownModels } \ { "DeviceModel" }

\* Neither a module of the exact name nor a class of any implementation
\* answers to the device type.
Unregistered(device_type) ==
    /\ device_type \notin KnownModels
    /\ class_name(device_type) \notin ModelClasses

\* C24: resolving a device_type that has neither a model under its exact name
\* nor an alias in any model implementation fails with an error: no instance
\* is returned, constructed or cached for it.
C24_UnknownTypeFails ==
    /\ \A i \in DOMAIN resolved :
         resolved[i].kind = "model" /\ Unregistered(resolved[i].type)
         => resolved[i].inst = 0
    /\ \A i \in DOMAIN built :
         built[i].kind = "model" => ~Unregistered(built[i].type)
    /\ \A r \in Registries : \A k \in DOMAIN reg_cache[r] :
         k.kind = "model" => ~Unregistered(k.type)

C24_Witness ==
    /\ \E i \in DOMAIN resolved :
         resolved[i].type = "device_model" /\ resolved[i].inst = 0
    /\ \E i \in DOMAIN resolved :
         resolved[i].type = "junos" /\ resolved[i].inst = 0

\* The aliases and the canonical model of each.
AliasOf ==
    [ cisco_xe |-> "cisco_ios", fortigate |-> "fortios", fortinet |-> "fortios",
      mikrotik |-> "routeros", mikrotik_routeros |-> "routeros" ]

\* get_commands() of the instance a resolution returned.
CommandsOfInstance(inst) == ClassCommands(built[inst].class)

\* C25: resolving an alias A of a canonical model M succeeds, through the
\* fallback scan (no module is named A, the module of M holds the class), and
\* get_commands of what it returns is the command list of M in the same
\* order, which is also what every resolution of M itself returns.
C25_AliasSameCommands ==
    \A i \in DOMAIN resolved :
         resolved[i].kind = "model" /\ resolved[i].type \in DOMAIN AliasOf
         => LET A == resolved[i].type
                M == AliasOf[A]
            IN /\ resolved[i].inst > 0
               /\ A \notin KnownModels
               /\ ScanMatches(A) = { M }
               /\ CommandsOfInstance(resolved[i].inst) = OwnCommands[class_name(M)]
               /\ \A j \in DOMAIN resolved :
                    resolved[j].kind = "model" /\ resolved[j].type = M
                    => /\ resolved[j].inst > 0
                       /\ CommandsOfInstance(resolved[j].inst)
                            = CommandsOfInstance(resolved[i].inst)

C25_Witness ==
    \E i, j \in DOMAIN resolved :
         /\ resolved[i].type = "mikrotik_routeros" /\ resolved[i].inst > 0
         /\ resolved[j].type = "routeros" /\ resolved[j].inst > 0
         /\ Len(CommandsOfInstance(resolved[i].inst)) = 4


\* The row of a name in a set of rows.
RowsOf(rows, name) == { r \in rows : r.name = name }

Names(rows) == { r.name : r \in rows }

\* C26: the device table never holds two rows with the same name, and a
\* second upsert_devices with the same device list leaves the same names,
\* each with one row, the same host, device_type and created_at as after the
\* first, last_backup not earlier than before, and equal to the time of the
\* call for the names of the list.
C26_UpsertIdempotent ==
    /\ \A r, q \in devices_table : r.name = q.name => r = q
    /\ \A i \in DOMAIN applied :
         /\ \A d \in { applied[i].devices[k] : k \in DOMAIN applied[i].devices } :
              \E r \in applied[i].rows :
                 r.name = d.name /\ r.last_backup = applied[i].time
         /\ i > 1 /\ applied[i].devices = applied[i-1].devices
            => /\ Names(applied[i].rows) = Names(applied[i-1].rows)
               /\ \A r \in applied[i].rows :
                    /\ RowsOf(applied[i].rows, r.name) = { r }
                    /\ \E q \in applied[i-1].rows :
                         /\ q.name = r.name
                         /\ q.host = r.host
                         /\ q.device_type = r.device_type
                         /\ q.created_at = r.created_at
                         /\ q.last_backup <= r.last_backup

C26_Witness ==
    \E i \in DOMAIN applied :
         /\ i > 1
         /\ applied[i].devices = applied[i-1].devices
         /\ Len(applied[i].devices) = 2
         /\ applied[i].devices[1].name = applied[i].devices[2].name
         /\ applied[i].devices[1].host # applied[i].devices[2].host
         /\ applied[i].time > applied[i-1].time
         /\ Cardinality(applied[i].rows) = 1


\* C27: a save_backup call for device D leaves the snapshots and the latest
\* alias of every other device as they were, and its rotation deletes nothing
\* when D's whole history, after the write and before the rotation, holds at
\* most retention snapshots.
C27_RotationScoped ==
    [][ calls' # calls =>
          LET D == calls'[Len(calls')].dev
              history == { f \in files' \cup removed' : f.dev = D }
          IN /\ { f \in files : f.dev # D } = { f \in files' : f.dev # D }
             /\ { l \in links : l.dev # D } = { l \in links' : l.dev # D }
             /\ \A f \in removed' : f.dev = D
             /\ Cardinality(history) <= fs_conf.retention
                => /\ removed' = {}
                   /\ \A f \in files : f.dev = D =>
                        \E g \in files' : /\ g.dev = f.dev /\ g.day = f.day
                                          /\ g.ts = f.ts ]_vars

\* A call for r1 whose history just fills the retention and deleted nothing,
\* while r2 has a snapshot and its alias.
C27_Witness ==
    /\ calls # << >>
    /\ calls[Len(calls)].dev = "r1"
    /\ calls[Len(calls)].status = "returned"
    /\ \E f \in files : f.dev = "r2"
    /\ \E l \in links : l.dev = "r2"
    /\ removed = {}
    /\ Cardinality({ f \in files : f.dev = "r1" }) = fs_conf.retention
    /\ Cardinality({ f \in files : f.dev = "r1" }) = 2


\* The identifiers get_device_backups lists for a device.
HistoryIds(d) == { [kind |-> "file", dev |-> d, ts |-> f.ts] : f \in get_device_backups(d) }

\* C28: after calls for a device that all returned (retention at least 1),
\* get_device_last_backup_content, which is get_backup_content of the alias,
\* returns the content of the device's most recent write, in either mode;
\* and get_backup_content of an identifier that is neither in the device's
\* history nor its alias raises FileNotFoundError, whatever is stored.
C28_ReadsLatestOrNotFound ==
    /\ \A d \in FsDevices :
         /\ get_device_last_backup_content(d)
              = get_backup_content(d, [kind |-> "latest", dev |-> d, ts |-> 0])
         /\ CallsOf(d) # << >> /\ CleanHistory(d) /\ fs_conf.retention >= 1
            => get_device_last_backup_content(d)
                 = { ToString(CallsOf(d)[Len(CallsOf(d))].content) }
    /\ \A d \in FsDevices, id \in BackupIds :
         /\ id \notin HistoryIds(d)
         /\ ~(id.kind = "latest" /\ id.dev = d)
         /\ ~(id.kind = "path" /\ id.dev = d)
         => get_backup_content(d, id) = { "FileNotFoundError" }


\* One run of the scheduler in which no step that can be taken is put off
\* for ever: every call returns or raises, and the threads are scheduled.
SpecLive == Init /\ [][Next]_vars /\ WF_vars(Next)

\* Every pipeline of the run has ended in success (its name) or failure (None).
PipelinesEnded ==
    \A t \in Tasks : task[t].pc = "done" /\ task[t].outcome \in { "name", "None" }

\* C29: under fair scheduling, and with every inventory query, session
\* operation and sink write returning or failing, a started run eventually
\* finishes: every pipeline has ended in success or failure and run_backup
\* has returned.
C29_RunTerminates == (runPc # "idle") ~> (Returned /\ PipelinesEnded)

C29_Witness ==
    /\ runPc = "results"
    /\ Len(task) = 3
    /\ PipelinesEnded
    /\ \E t \in Tasks : task[t].outcome = "name"
    /\ \E t \in Tasks : task[t].outcome = "None"


\* The configuration has no cron expression, or scheduler.enabled is false.
Disabled == ~config.enabled \/ config.cron = NoInst

\* C30: when no cron expression is configured or scheduling is turned off, no
\* run is ever started by the recurring trigger, and after any sequence of
\* start() and stop() calls get_status reports is_running false and next_run
\* none.
C30_DisabledStaysInactive ==
    Disabled =>
      /\ \A r \in DOMAIN runs : runs[r].by # "cron"
      /\ get_status.is_running = FALSE
      /\ get_status.next_run = << >>


\* The blocks of the first n commands of a list, each followed by a newline
\* and separated by one more.
RECURSIVE BlocksUpTo(_, _, _)
BlocksUpTo(device, cmds, n) ==
    IF n = 0 THEN ""
    ELSE BlocksUpTo(device, cmds, n - 1)
           \o (IF n > 1 THEN "\n" ELSE "")
           \o "! Command: " \o cmds[n] \o "\n" \o send_command(device, cmds[n]) \o "\n"

\* C31: the commands sent on a session are at every moment the first ones of
\* the model's get_commands list, in its order; when backup_device returns a
\* snapshot every command was sent exactly once, and the snapshot is
\* process_config of the blocks, one per command in that order, each a
\* delimiter line naming the command followed by the command's output.
C31_CommandsInOrder ==
    \A t \in Tasks :
         /\ Len(task[t].sent) <= Len(CommandsOf(t))
         /\ \A k \in DOMAIN task[t].sent : task[t].sent[k] = CommandsOf(t)[k]
         /\ task[t].config # NoInst
            => /\ task[t].sent = CommandsOf(t)
               /\ task[t].config \in
                    { process_config(BlocksUpTo(task[t].device, CommandsOf(t),
                                                Len(CommandsOf(t))), r) :
                        r \in ProcessOutcomes(DeviceTypeOf(task[t].device)) \ { "raise" } }
               /\ task[t].outcome = "name"
                  => task[t].config = BlocksUpTo(task[t].device, CommandsOf(t),
                                                 Len(CommandsOf(t)))

C31_Witness ==
    \E t \in Tasks :
         /\ task[t].device = "r1"
         /\ task[t].outcome = "name"
         /\ Len(task[t].sent) = 2
         /\ task[t].config =
              "! Command: show version\n<output of 'show version' on r1>\n\n! Command: show running-config\n<output of 'show running-config' on r1>\n"


\* C32: resolution of a command model has two stages. A device_type with an
\* implementation under its exact name gets an instance of that module's
\* class, from the direct lookup and not from the scan; a device_type for
\* which the direct lookup finds no module gets what the scan over the model
\* implementations gives: an instance from a module holding the class, or
\* the error when no module holds it.
C32_TwoStages ==
    /\ \A i \in DOMAIN resolved :
         resolved[i].kind = "model" /\ resolved[i].inst > 0
         => LET b == built[resolved[i].inst]
            IN IF resolved[i].type \in KnownModels
               THEN /\ b.via = "direct"
                    /\ b.module = resolved[i].type
                    /\ b.class \in ModuleClasses(resolved[i].type)
               ELSE /\ b.via = "scan"
                    /\ b.module \in KnownModels
                    /\ b.class = class_name(resolved[i].type)
                    /\ b.class \in ModuleClasses(b.module)
    /\ \A i \in DOMAIN resolved :
         resolved[i].kind = "model" /\ resolved[i].inst = 0
         => /\ resolved[i].type \notin KnownModels
            /\ \A m \in KnownModels :
                 class_name(resolved[i].type) \in ModuleClasses(m)
                 => class_name(resolved[i].type) = "DeviceModel"

C32_Witness ==
    \E i, j \in DOMAIN resolved :
         /\ resolved[i].type = "fortios" /\ resolved[i].inst > 0
         /\ built[resolved[i].inst].via = "direct"
         /\ resolved[j].type = "fortigate" /\ resolved[j].inst > 0
         /\ built[resolved[j].inst].via = "scan"
         /\ built[resolved[j].inst].module = "fortios"


\* The device list of the inventory configured in block i.
OwnDevices(i) == DevicesOf(config.input[i].cfg)

\* C33: after the source loop of a run in which every block of config.input
\* answered, each block was asked for the device list of its own inventory,
\* and the run's device list is the concatenation of these lists in
\* configuration order, also when two blocks have the same type name.
C33_EverySourceQueried ==
    /\ runPc \notin { "idle", "sources" }
    /\ \A i \in DOMAIN config.input : srcStatus[i] = "answered"
    => /\ \A i \in DOMAIN config.input : answers[i] = OwnDevices(i)
       /\ all_devices = Flatten([i \in DOMAIN config.input |-> OwnDevices(i)])


\* C34: the device cache is written by no device worker: it keeps the rows it
\* had before the run until run_backup has returned its results, and the only
\* step of a run that changes it is the orchestrator's upsert of the whole
\* device list, taken when every pipeline of the run has returned.
C34_OneUpsertAfterPool ==
    /\ [](runPc # "results" => database \in InitialCaches)
    /\ [][ database' # database =>
             /\ runPc = "pool" /\ runPc' = "results"
             /\ \A t \in Tasks : task[t].pc = "done" /\ task[t].outcome # "pending"
             /\ collected = Tasks
             /\ task' = task
             /\ database' = upsert_devices(database, all_devices, now) ]_vars

\* The upsert was made after three pipelines, one of which had failed.
C34_Witness ==
    /\ runPc = "results"
    /\ Len(task) = 3
    /\ \E t \in Tasks : task[t].outcome = "None"
    /\ database \notin InitialCaches
    /\ \A i \in DOMAIN all_devices : all_devices[i] \in DOMAIN database


\* C35: while the pool is collected the two counters add up to the number of
\* pipelines collected so far, and a run that went through the pool and
\* returned its results has success + failed = total = the number of devices
\* collected from the sources, duplicates included: every device is behind
\* exactly one pipeline, and each pipeline is in exactly one of the counters.
C35_CountersAddUp ==
    /\ runPc = "pool" =>
         /\ results.total = Len(all_devices)
         /\ results.success + results.failed = Cardinality(collected)
    /\ runPc = "results" =>
         /\ returned.total = Len(all_devices)
         /\ returned.success + returned.failed = returned.total
         /\ Tasks = DOMAIN all_devices
         /\ \A t \in Tasks : task[t].device = all_devices[t]
         /\ returned.success =
              Cardinality({ t \in Tasks : task[t].outcome = "name" })
         /\ returned.failed =
              Cardinality({ t \in Tasks : task[t].outcome = "None" })

\* A run returned its results after two pipelines for the same device name,
\* one counted as succeeded and one as failed.
C35_Witness ==
    /\ runPc = "results"
    /\ returned.total = Len(task)
    /\ returned.success >= 1 /\ returned.failed >= 1
    /\ \E t, u \in Tasks :
          /\ t # u /\ task[t].device = task[u].device
          /\ task[t].outcome = "name" /\ task[u].outcome = "None"


\* C36: run_backup always ends at one of its return statements: a run that
\* has not returned can take a further step, whatever it returns is a result
\* record, and a run ended by the handler around its body (here: the cache
\* upsert raised after the pool had drained) returns success 0, failed 0,
\* total 0 whatever its counters and the sinks hold by then.
C36_NeverRaises ==
    /\ ~Returned => ENABLED Next
    /\ Returned =>
         /\ DOMAIN returned = { "success", "failed", "total" }
         /\ \A k \in DOMAIN returned : returned[k] \in 0..Len(all_devices)
    /\ runPc = "error" => returned = ZeroResult

\* The upsert raised after two of three pipelines had been counted as
\* succeeded and a sink holds their snapshots: the run returned zeros, the
\* cache is untouched.
C36_Witness ==
    /\ runPc = "error"
    /\ PoolDrained
    /\ results.success = 2 /\ results.total = 3
    /\ \E o \in OutputTypes : Cardinality(sinkStore[o]) = 2
    /\ returned = ZeroResult
    /\ database \in InitialCaches


\* The resolution this step ends, if it ends one.
Ended == resolved'[Len(resolved')]

\* C37: a resolution that raises leaves the three caches of its registry (and
\* of the other registry) as they were, and was not answered from memory: it
\* followed a construction attempt of its own. The caches hold instances
\* only, never a failure.
C37_FailureNotCached ==
    /\ [](\A r \in Registries : \A k \in DOMAIN reg_cache[r] :
             /\ reg_cache[r][k] \in 1..Len(built)
             /\ built[reg_cache[r][k]].reg = r
             /\ built[reg_cache[r][k]].class # NoModel)
    /\ [][ (Len(resolved') = Len(resolved) + 1 /\ Ended.inst = 0) =>
             /\ reg_cache' = reg_cache
             /\ built' = built
             /\ \E c \in RegCallers :
                  /\ caller[c].pc = "miss" /\ caller'[c].pc = "idle"
                  /\ caller[c].req.type = Ended.type
                  /\ caller[c].req.kind = Ended.kind ]_vars

\* A resolution of a type failed, and a later resolution of the same type in
\* the same registry constructed an instance and returned it.
C37_Witness ==
    \E i, j \in DOMAIN resolved :
       /\ i < j
       /\ resolved[i].inst = 0 /\ resolved[j].inst > 0 /\ resolved[j].made
       /\ resolved[j].after >= i
       /\ resolved[i].reg = resolved[j].reg
       /\ resolved[i].kind = resolved[j].kind
       /\ resolved[i].type = resolved[j].type
       /\ CacheKey(resolved[j]) \in DOMAIN reg_cache[resolved[j].reg]


\* C38: a finished pipeline returned the device name exactly when
\* backup_device returned a string that is not empty, and the success counter
\* counts exactly those pipelines; a pipeline whose session and commands all
\* succeeded and whose processed snapshot is the empty string ends as failed
\* without a single save_backup call.
C38_SuccessIffSnapshot ==
    /\ \A t \in Tasks :
         /\ task[t].pc = "done" =>
              (task[t].outcome = "name" <=> task[t].config \notin { NoInst, "" })
         /\ task[t].config = "" =>
              /\ task[t].outcome = "None"
              /\ task[t].saves = << >>
              /\ task[t].sent = get_commands(DeviceTypeOf(task[t].device))
              /\ task[t].session = "closed"
         /\ task[t].saves # << >> => task[t].config \notin { NoInst, "" }
    /\ runPc \in { "pool", "results" } =>
         /\ results.success =
              Cardinality({ t \in collected : task[t].config \notin { NoInst, "" } })
         /\ results.failed =
              Cardinality({ t \in collected : task[t].config \in { NoInst, "" } })

\* The run returned after a pipeline whose commands all succeeded and whose
\* processed snapshot was empty: it is one of two failures, beside a success.
C38_Witness ==
    /\ runPc = "results"
    /\ output_modules # << >>
    /\ returned.failed = 2 /\ returned.success = 1
    /\ \E t \in Tasks :
          /\ task[t].config = "" /\ task[t].cause = "empty"
          /\ Len(task[t].config_output) = Len(get_commands(DeviceTypeOf(task[t].device)))
          /\ task[t].device \notin UNION { sinkStore[o] : o \in OutputTypes }


\* The save_backup call this step makes, if it makes one.
Raised == Len(calls') = Len(calls) + 1 /\ calls'[Len(calls')].status = "raised"

\* C39: a save_backup call that raises leaves every snapshot file that was
\* there before the call where it was and with the content it had, and
\* leaves every latest alias in place, referring to the snapshot it referred
\* to before the call.
C39_RaiseLeavesState ==
    [][ Raised => /\ \A f \in files : f \in files'
                  /\ \A l \in links : l \in links'
                  /\ \A l \in links' : l \in links ]_vars


\* The save_backup call this step makes ended with its rotation in error.
RotationFailed ==
    Len(calls') = Len(calls) + 1 /\ calls'[Len(calls')].status = "rotation_error"

\* C40: a save_backup call whose rotation fails returns normally, and after
\* it the snapshot it wrote is there with its content, the latest alias of
\* its directory refers to that snapshot, and every other file that was
\* there before the call and is within the retention is still there.
C40_RotationErrorContained ==
    [][ RotationFailed =>
          LET c == calls'[Len(calls')]
              written == WriteFile(files, c.day, c.dev, c.ts, c.content, now)
          IN /\ c.status # "raised"
             /\ \E f \in files' : SameFile(f, c) /\ f.content = c.content
             /\ [day |-> c.day, dev |-> c.dev, target |-> c.ts] \in links'
             /\ \A l \in links' : l.day = c.day /\ l.dev = c.dev => l.target = c.ts
             /\ files' \subseteq written
             /\ \E R \in FilesToRemove(BackupFilesIn(written, c.day, c.dev),
                                       fs_conf.retention) :
                   written \ R \subseteq files' ]_vars

====
